---- MODULE Spec2Model ----
(***************************************************************************)
(* salted: link and DOI checker.  Model of one Salted object: its          *)
(* configuration, the cache file on disk, the in-memory database of one    *)
(* check() run, the asyncio worker pool of the URL phase, the worker pool  *)
(* of the DOI phase, and the tail of check() (views, report, dead-link     *)
(* gate, cache write-back).  check() may be called again on the same       *)
(* object; every call builds its in-memory database and its probers anew.  *)
(* The six views of the report are operators over the tables, and one call *)
(* of DoiCheck.__rate_limit_wait is modelled with its two arguments.       *)
(*                                                                         *)
(* The repository holds two revisions of the URL prober with the same      *)
(* interface: url_check.UrlCheck (the one Salted.check constructs) and     *)
(* network_interaction.NetworkInteraction (the one with the GET fallback). *)
(* The variable `engine` says which of the two runs the URL phase.         *)
(*                                                                         *)
(* asyncio runs one task at a time and switches tasks only at an await     *)
(* that really suspends: a worker action is the code between two such      *)
(* points.  queue.get() on a non-empty queue does not suspend.             *)
(***************************************************************************)
EXTENDS Integers, Sequences, FiniteSets, Bags, TLC

(* ---------------------------------------------------------------- bounds *)
\* Largest number of link rows one scan hands to the database.
MaxLinks == 2
\* Largest number of clock steps the model lets pass.
MaxTicks == 1
\* Largest number of DOIs a scanned .bib file holds.
MaxDois == 6
\* Largest probe set __recommend_num_workers is asked about.
MaxChecks == 5001
\* Largest number of calls of check() on one Salted object.
MaxRuns == 2
\* Largest number of DOI entries one .bib file hands to handle_found_dois.
MaxEntries == 101
\* Largest X-Rate-Limit-Limit and X-Rate-Limit-Interval the API sends.
MaxQueries == 50
MaxSeconds == 2

(* ------------------------------------------------------------ the inputs *)
\* Normalized URLs, file paths and DOIs the scanned corpus may contain.
Urls == {"u1", "u2"}
Files == {"f1", "f2"}
DoiNames == <<"d1", "d2", "d3", "d4", "d5", "d6", "d7", "d8">>
Dois == {DoiNames[i] : i \in 1 .. MaxDois}
\* Values the user may give num_workers: 'automatic', or a number of
\* workers as the config file and the command line hand it over, a string.
WorkerChoices == {"automatic", "0", "1", "2"}
\* The worker tasks a pool of the model can hold.
Workers == 1 .. 4
\* The value of a worker that holds no item.
NoItem == "-"

\* A request ends with a status code or with a raised exception.
Status(code) == [status |-> code, exc |-> "none"]
Raised(name) == [status |-> 0, exc |-> name]
\* Every status code validate_url tells apart, and one it does not (500).
AllStatus == {200, 302, 303, 307, 301, 308, 403, 404, 410, 429, 500}
\* The exceptions validate_url names, and one it does not (InvalidURL).
Taxonomy == {"TimeoutError", "ClientConnectorError", "ClientResponseError",
             "ClientOSError", "ServerDisconnectedError"}
AllOutcomes == {Status(c) : c \in AllStatus}
               \cup {Raised(e) : e \in Taxonomy \cup {"InvalidURL"}}
\* The outcomes the whole-run specification draws from: a working link, a
\* dead one, one the server forbids, a timeout, an exception outside the
\* taxonomy.
RunOutcomes == {Status(200), Status(403), Status(404),
                Raised("TimeoutError"), Raised("InvalidURL")}

VARIABLES
    \* ---- the Salted object (src/salted/__main__.py:59-80)
    engine,                 \* "UrlCheck" or "NetworkInteraction"
    raise_for_dead_links,   \* BOOLEAN
    num_workers,            \* 'automatic' or the number of URL workers, a string
    num_checks,             \* len(urls_to_check) of the URL phase
    recommendation,         \* what __recommend_num_workers returned or raised
    \* ---- the environment
    now,                    \* strftime('%s','now'): epoch seconds
    ticks,                  \* clock steps taken so far
    diskUrls,               \* cache file, table validUrls: bag of <<url, lastValid>>
    diskDois,               \* cache file, table validDois: bag of <<doi, lastSeen>>
    diskFile,               \* what stands at the path of the cache file
    \* ---- the calls of check() on this object
    run,                    \* the number of this call of check()
    prevFine,               \* the validUrls rows the call before this one logged
    \* ---- what load_disk_cache and scan_files did in this call
    path,                   \* what the searchpath of this call is, "-" before
    content,                \* the links the files at the searchpath hold
    reads,                  \* file -> what open() and read() of it end with
    loadedUrls,             \* the rows load_disk_cache read from validUrls
    loadedDois,             \* the rows load_disk_cache read from validDois
    linkRecords,            \* table links as scan_files left it
    doiRecords,             \* table queue_doi as scan_files left it
    doi_list,               \* the entries handle_found_dois was called with
    fileAccessErrors,       \* bag of <<filePath, problem>>
    \* ---- check(): where the main coroutine stands
    pc,
    events,                 \* the phases of this run, in the order they happened
    \* ---- the in-memory database of the run
    links,                  \* table links/queue: sequence of [filePath, normalizedUrl]
    queue_doi,              \* table queue_doi: sequence of [filePath, doi]
    validUrls,              \* bag of <<normalizedUrl, lastValid>>
    validDois,              \* bag of <<doi, lastSeen>>
    errors,                 \* bag of <<normalizedUrl, error>>
    permanentRedirects,     \* bag of <<normalizedUrl, error>>
    exceptions,             \* bag of <<normalizedUrl, <<reason, code>> >>
    invalidDois,            \* bag of dois logged as invalid
    \* ---- URL phase: queue, session, worker tasks, counters
    queue,                  \* asyncio.Queue: sequence of normalized URLs
    unfinished,             \* asyncio.Queue._unfinished_tasks
    session,                \* "none", "open", "closed"
    wpc,                    \* worker -> "none","new","get","head","full","cancelled","raised"
    wurl,                   \* worker -> the URL it dequeued and has not acknowledged
    cnt,                    \* Counter: checked_urls, fine, neededFullRequest
    \* ---- DOI phase
    dqueue, dunfinished, dsession,
    dpc,                    \* worker -> "none","new","get","request","sleep","cancelled","raised"
    ddoi,                   \* worker -> the DOI it dequeued and has not acknowledged
    dstatus,                \* worker -> status of the response it is sleeping on
    valid_doi_list, invalid_doi_list,
    dexc,                   \* worker -> the exception that ended its task, or "none"
    advertised,             \* X-Rate-Limit-Limit of the last response, 0 before
    dfirst,                 \* requests sent in the first turn of the event loop
    dseen,                  \* doi -> the status __api_send_head_request returned, 0 before
    \* ---- one call of DoiCheck.__rate_limit_wait
    max_queries,            \* int(api_response['max_queries'])
    seconds,                \* int(api_response['seconds'])
    time_to_sleep,          \* what the call raised, and what it slept
    \* ---- bookkeeping of the requests, for the properties
    headReqs,               \* url -> number of first (HEAD) requests sent
    fullReqs,               \* url -> number of full GET requests sent
    acked,                  \* url -> number of task_done() calls for it
    whead,                  \* worker -> status of the first response of the URL it retries
    lastResp,               \* the last response handled, until the URL phase ends
    useen                   \* url -> the status code that decided it, 0 before

urlVars == <<queue, unfinished, session, wpc, wurl, cnt>>
rateVars == <<dexc, advertised, dfirst, dseen>>
doiVars == <<dqueue, dunfinished, dsession, dpc, ddoi, dstatus,
             valid_doi_list, invalid_doi_list, rateVars>>
dbVars == <<links, queue_doi, validUrls, validDois, errors,
            permanentRedirects, exceptions, invalidDois>>
cfgVars == <<engine, raise_for_dead_links, num_workers>>
poolVars == <<num_checks, recommendation>>
diskVars == <<diskUrls, diskDois, diskFile>>
scanVars == <<run, prevFine, path, content, reads, loadedUrls, loadedDois, linkRecords, doiRecords,
              doi_list, fileAccessErrors>>
waitVars == <<max_queries, seconds, time_to_sleep>>
ghostVars == <<headReqs, fullReqs, acked, whead, lastResp, useen>>
vars == <<cfgVars, waitVars, scanVars, poolVars, now, ticks, diskVars, pc, events, dbVars, urlVars,
          doiVars, ghostVars>>


(* ------------------------------------------------------- the clock, time *)
\* strftime('%s','now') when the object is constructed.
StartTime == 4 * 43200
\* dont_check_again_within_hours, the application default.
dont_check_again_within_hours == 24

(* ------------------------------------------ database_io.py: the database *)
AddRow(table, row) == table (+) SetToBag({row})
\* The rows of a table that are in the set kept, with their multiplicities.
SelectBag(table, kept) ==
    [r \in BagToSet(table) \cap kept |-> CopiesIn(r, table)]
\* The first column of a table of pairs, as a set.
Keys(table) == {r[1] : r \in BagToSet(table)}
\* How many rows of the table have this key.
RowsOf(table, key) ==
    BagCardinality(SelectBag(table, {r \in BagToSet(table) : r[1] = key}))

RECURSIVE Distinct(_, _)
Distinct(seq, seen) ==
    IF seq = <<>> THEN <<>>
    ELSE IF Head(seq) \in seen THEN Distinct(Tail(seq), seen)
    ELSE <<Head(seq)>> \o Distinct(Tail(seq), seen \cup {Head(seq)})

\* The query of urls_to_check without DISTINCT.
urls_to_check_all(linkRows) ==
    [i \in 1 .. Len(linkRows) |-> linkRows[i].normalizedUrl]

\* SELECT DISTINCT normalizedUrl FROM links
urls_to_check(linkRows) ==
    Distinct([i \in 1 .. Len(linkRows) |-> linkRows[i].normalizedUrl], {})

\* A log_url_is_fine that loses the row.
log_url_is_fine_lost(table, url, t) == table

\* INSERT INTO validUrls VALUES (url, strftime('%s','now'))
log_url_is_fine(table, url, t) == AddRow(table, <<url, t>>)
\* A log_error that inserts the row twice.
log_error_twice(table, url, error_code) ==
    AddRow(AddRow(table, <<url, error_code>>), <<url, error_code>>)
log_error(table, url, error_code) == AddRow(table, <<url, error_code>>)
log_redirect(table, url, code) == AddRow(table, <<url, code>>)
log_exception(table, url, reason) == AddRow(table, <<url, reason>>)

\* A del_links_that_can_be_skipped that deletes nothing.
del_links_none_skipped(linkRows, valid) == linkRows

\* DELETE FROM links WHERE normalizedUrl IN (SELECT normalizedUrl FROM validUrls)
del_links_that_can_be_skipped(linkRows, valid) ==
    SelectSeq(linkRows, LAMBDA r : r.normalizedUrl \notin Keys(valid))

\* What del_links_that_can_be_skipped returns: SELECT COUNT(*) FROM links
\* after the DELETE.
num_links_after(linkRows) == Len(linkRows)

\* SELECT COUNT(*) FROM errors
count_errors(table) == BagCardinality(table)

(* ------------------------------------- cache_reader.py: the cache on disk *)
\* SELECT ... FROM validUrls WHERE lastValid > strftime('%s','now') - ? * 3600
load_valid_urls(disk, t, hours) ==
    SelectBag(disk, {r \in BagToSet(disk) : r[2] > t - hours * 3600})
\* A load of validDois that leaves out the rows that are older than
\* dont_check_again_within_hours when the object is constructed.
load_fresh_dois(disk) ==
    SelectBag(disk, {r \in BagToSet(disk) :
                        r[2] > StartTime - dont_check_again_within_hours * 3600})

\* SELECT doi, lastSeen FROM validDois
load_valid_dois(disk) == disk

\* What can stand at the path of the cache file: nothing; a file sqlite
\* cannot open; a file that is no database; the empty database that
\* sqlite3.connect creates where no file is; a database without the table
\* validUrls or without the table validDois; a database with both.
CacheFiles == {"none", "unopenable", "garbage", "empty", "no_validUrls",
               "no_validDois", "sqlite"}
\* The files whose first SELECT (FROM validUrls) raises.
NoUrlTable == {"none", "garbage", "empty", "no_validUrls"}

\* CacheReader.load_disk_cache(): what it puts into the in-memory tables,
\* what it raises, and what stands at the path afterwards.  When
\* sqlite3.connect raises, `finally: disk_cache.close()` finds the name
\* unbound.  valid_urls is assigned before the second SELECT runs.
load_disk_cache(file, urls, dois, t, hours) ==
    IF file = "unopenable"
    THEN [exc |-> "UnboundLocalError", urls |-> EmptyBag, dois |-> EmptyBag,
          file |-> file]
    ELSE IF file \in NoUrlTable
    THEN [exc |-> "none", urls |-> EmptyBag, dois |-> EmptyBag,
          file |-> IF file = "none" THEN "empty" ELSE file]
    ELSE IF file = "no_validDois"
    THEN [exc |-> "none", urls |-> load_valid_urls(urls, t, hours),
          dois |-> EmptyBag, file |-> file]
    ELSE [exc |-> "none", urls |-> load_valid_urls(urls, t, hours),
          dois |-> load_valid_dois(dois), file |-> file]

(* ------------------------------ memory_instance.py: the in-memory database *)
\* A check() that goes on with the tables of the call before.
reuse_schema(table) == table
\* MemoryInstance(): a new connection to ':memory:' and create_schema();
\* whatever the table of the call before held, the new one is empty.
create_schema(table) == EmptyBag

(* ------------------------------------ memory_instance.py: the six views *)
\* A link row stands in the views with its position in table links, which
\* stands for the columns url and linktext of that row.
\* SELECT COUNT(*), filePath FROM queue WHERE normalizedUrl IN
\*   (SELECT normalizedUrl FROM table) GROUP BY filePath: the count of file
\* f, 0 when the view has no row for f.
CountByFile(linkRows, table, f) ==
    Cardinality({i \in 1 .. Len(linkRows) :
                    /\ linkRows[i].filePath = f
                    /\ linkRows[i].normalizedUrl \in Keys(table)})
\* SELECT queue.filePath, queue.url, queue.linktext, table.error FROM queue
\*   INNER JOIN table ON queue.normalizedUrl = table.normalizedUrl:
\* the bag of <<filePath, link row, code or reason>>.
ListByFile(linkRows, table) ==
    LET pairs == {p \in (1 .. Len(linkRows)) \X BagToSet(table) :
                     p[2][1] = linkRows[p[1]].normalizedUrl}
    IN [x \in {<<linkRows[p[1]].filePath, p[1], p[2][2]>> : p \in pairs} |->
           CopiesIn(<<linkRows[x[2]].normalizedUrl, x[3]>>, table)]
v_errorCountByFile(f) == CountByFile(links, errors, f)
v_redirectCountByFile(f) == CountByFile(links, permanentRedirects, f)
v_exceptionCountByFile(f) == CountByFile(links, exceptions, f)
v_errorsByFile == ListByFile(links, errors)
v_redirectsByFile == ListByFile(links, permanentRedirects)
v_exceptionsByFile == ListByFile(links, exceptions)
\* SELECT url, linktext, httpCode FROM view WHERE filePath = ?: how many
\* rows generate_error_list and its two siblings get for a file.
defects(view, f) ==
    BagCardinality(SelectBag(view, {x \in BagToSet(view) : x[1] = f}))

(* -------------------- database code the repository holds no source of:  *)
(* the DOI side of DatabaseIO, as __main__.py and doi_check.py call it.    *)
save_found_dois(table, rows) == table \o rows
del_dois_that_can_be_skipped(doiRows, valid) ==
    SelectSeq(doiRows, LAMBDA r : r.doi \notin Keys(valid))
get_dois_to_check(doiRows) ==
    Distinct([i \in 1 .. Len(doiRows) |-> doiRows[i].doi], {})
RECURSIVE save_valid_dois(_, _, _)
save_valid_dois(table, dois, t) ==
    IF dois = <<>> THEN table
    ELSE save_valid_dois(AddRow(table, <<Head(dois), t>>), Tail(dois), t)
RECURSIVE log_invalid_dois(_, _)
log_invalid_dois(table, dois) ==
    IF dois = <<>> THEN table
    ELSE log_invalid_dois(AddRow(table, Head(dois)), Tail(dois))

(* ------------------------------ input_handler.py: what a scan hands over *)
\* handle_found_dois: lists shorter than the step go to the database whole,
\* longer ones in slices [first, last) while last <= len - 1.
DoiStep == 50
RECURSIVE doi_slices(_, _, _)
doi_slices(dois_found, first, last) ==
    IF last <= Len(dois_found) - 1
    THEN SubSeq(dois_found, first + 1, last)
         \o doi_slices(dois_found, first + DoiStep, last + DoiStep)
    ELSE <<>>
handle_found_dois(table, dois_found) ==
    IF dois_found = <<>> THEN table
    ELSE IF Len(dois_found) < DoiStep THEN save_found_dois(table, dois_found)
    ELSE save_found_dois(table, doi_slices(dois_found, 0, DoiStep))

\* What open() and read() of a file end with: the content, or an exception.
ReadOutcomes == {"content", "FileNotFoundError", "PermissionError",
                 "TimeoutError", "BlockingIOError", "IsADirectoryError"}
\* The problem read_file_content logs for an exception.
AccessProblem(exc) ==
    CASE exc = "FileNotFoundError" -> "file not found"
      [] exc = "PermissionError" -> "permission error"
      [] exc = "TimeoutError" -> "system timeout"
      [] exc = "BlockingIOError" -> "blocking IO"
      [] OTHER -> exc                      \* str(unexpected)
\* A read_file_content that lets the exception of open() go on: the scan
\* ends at the first file that cannot be read.
read_file_content_raising(access, f) ==
    CASE access[f] = "content" -> [content |-> TRUE, logged |-> {}, raised |-> FALSE]
      [] OTHER -> [content |-> FALSE, logged |-> {}, raised |-> TRUE]
\* read_file_content(path): the content is there, or the problem is logged
\* and None comes back; `finally: return content` lets nothing go on.
read_file_content(access, f) ==
    CASE access[f] = "content" -> [content |-> TRUE, logged |-> {}, raised |-> FALSE]
      [] OTHER -> [content |-> FALSE, logged |-> {<<f, AccessProblem(access[f])>>},
                   raised |-> FALSE]
\* scan_files(files_to_check): the rows of the files that could be read go
\* to the tables, every other file leaves a row in fileAccessErrors.
\* `files` is the list of the files in the order they are scanned.
RECURSIVE scan_files(_, _, _, _, _)
scan_files(files, access, rows, dois, st) ==
    IF files = <<>> THEN st
    ELSE LET f == Head(files)
             r == read_file_content(access, f)
         IN IF r.raised THEN [st EXCEPT !.raised = TRUE]
            ELSE IF ~r.content
            THEN scan_files(Tail(files), access, rows, dois,
                     [st EXCEPT !.fileAccessErrors = @ (+) SetToBag(r.logged)])
            ELSE scan_files(Tail(files), access, rows, dois,
                     [st EXCEPT
                        !.links = @ \o SelectSeq(rows, LAMBDA x : x.filePath = f),
                        !.queue_doi = handle_found_dois(@,
                                        SelectSeq(dois, LAMBDA x : x.filePath = f)),
                        !.doi_list = @ \o SelectSeq(dois, LAMBDA x : x.filePath = f),
                        !.scanned = @ \cup {f}])

(* --------------------------------- validate_url: what a response leads to *)
\* The reason string log_exception gets for a named exception.
ExceptionReason(exc) ==
    IF exc = "TimeoutError" THEN "Timeout"
    ELSE IF exc = "ServerDisconnectedError" THEN "Server disconnected"
    ELSE exc

Verdict(class, code, reason) == [class |-> class, code |-> code, reason |-> reason]

\* A validate_url that takes 302 Found for a permanent redirect.
Verdict302Permanent(o) ==
    IF o.exc # "none"
    THEN IF o.exc \in Taxonomy
         THEN Verdict("exception", 0, ExceptionReason(o.exc))
         ELSE Verdict("logged", 0, "")
    ELSE IF o.status \in {200, 303, 307} THEN Verdict("fine", o.status, "")
    ELSE IF o.status \in {301, 302, 308} THEN Verdict("redirect", o.status, "")
    ELSE IF o.status \in {403, 404, 410} THEN Verdict("error", o.status, "")
    ELSE IF o.status = 429 THEN Verdict("exception", 0, "Rate Limit (429)")
    ELSE Verdict("exception", o.status, "Other")

\* UrlCheck.validate_url: one request, every status code decides.
UrlCheckVerdict(o) ==
    IF o.exc # "none"
    THEN IF o.exc \in Taxonomy
         THEN Verdict("exception", 0, ExceptionReason(o.exc))
         ELSE Verdict("logged", 0, "")          \* except Exception: log only
    ELSE IF o.status \in {200, 302, 303, 307} THEN Verdict("fine", o.status, "")
    ELSE IF o.status \in {301, 308} THEN Verdict("redirect", o.status, "")
    ELSE IF o.status \in {403, 404, 410} THEN Verdict("error", o.status, "")
    ELSE IF o.status = 429 THEN Verdict("exception", 0, "Rate Limit (429)")
    ELSE Verdict("exception", o.status, "Other")

\* A fallback that does not look at request_type.
AlwaysFullRequest(request_type) == TRUE

\* The fallback of NetworkInteraction.validate_url: 403 and the codes it
\* does not know lead to a second call with request_type 'full'.
NeedsFullRequest(request_type) == request_type = "head"

\* NetworkInteraction.validate_url(url, request_type).
NetworkVerdict(request_type, o) ==
    IF o.exc # "none"
    THEN IF o.exc \in Taxonomy
         THEN Verdict("exception", 0, ExceptionReason(o.exc))
         ELSE Verdict("raise", 0, "")           \* except Exception: log, raise
    ELSE IF o.status \in {200, 302, 303, 307} THEN Verdict("fine", o.status, "")
    ELSE IF o.status \in {301, 308} THEN Verdict("redirect", o.status, "")
    ELSE IF o.status = 403
         THEN IF NeedsFullRequest(request_type)
              THEN Verdict("full", 0, "")
              ELSE Verdict("error", 403, "")
    ELSE IF o.status \in {404, 410} THEN Verdict("error", o.status, "")
    ELSE IF o.status = 429 THEN Verdict("exception", 0, "Rate Limit (429)")
    ELSE IF NeedsFullRequest(request_type)
         THEN Verdict("full", 0, "")
         ELSE Verdict("exception", o.status, "Other")

validate_url(eng, request_type, o) ==
    IF eng = "UrlCheck" THEN UrlCheckVerdict(o) ELSE NetworkVerdict(request_type, o)

\* A validate_url that logs error 403 on the first response and then falls
\* back all the same.
db_calls_early403(eng, request_type, o) ==
    LET v == validate_url(eng, request_type, o)
    IN IF v.class \in {"fine", "redirect", "error", "exception"} THEN <<v>>
       ELSE IF v.class = "full" /\ o.status = 403 THEN <<Verdict("error", 403, "")>>
       ELSE <<>>

\* The calls of log_url_is_fine, log_redirect, log_error and log_exception
\* that one pass through validate_url makes.
db_calls(eng, request_type, o) ==
    LET v == validate_url(eng, request_type, o)
    IN IF v.class \in {"fine", "redirect", "error", "exception"} THEN <<v>> ELSE <<>>

\* The four result tables after one such call.
Logged(t, v, url, time) ==
    CASE v.class = "fine" ->
            [t EXCEPT !.validUrls = log_url_is_fine(@, url, time)]
      [] v.class = "redirect" ->
            [t EXCEPT !.permanentRedirects = log_redirect(@, url, v.code)]
      [] v.class = "error" ->
            [t EXCEPT !.errors = log_error(@, url, v.code)]
      [] v.class = "exception" ->
            [t EXCEPT !.exceptions = log_exception(@, url, <<v.reason, v.code>>)]
RECURSIVE LoggedAll(_, _, _, _)
LoggedAll(t, calls, url, time) ==
    IF calls = <<>> THEN t
    ELSE LoggedAll(Logged(t, Head(calls), url, time), Tail(calls), url, time)


(* ------------------------------------------ __recommend_num_workers *)
\* int(self.num_workers)
IntOf(s) == CASE s = "0" -> 0 [] s = "1" -> 1 [] s = "2" -> 2
Recommended(n) == [exc |-> "none", n |-> n]
NoRecommendation == [exc |-> "unset", n |-> 0]

\* UrlCheck.__recommend_num_workers(num_checks)
UrlCheckWorkers(nw, n) ==
    IF nw = "automatic"
    THEN IF n < 1 THEN [exc |-> "ValueError", n |-> 0]
         ELSE IF 24 < n /\ n < 100 THEN Recommended(12)
         ELSE IF n > 99 THEN Recommended(32)
         ELSE IF n > 5000 THEN Recommended(64)
         ELSE Recommended(4)
    ELSE Recommended(IntOf(nw))

\* NetworkInteraction.__recommend_num_workers()
NetworkWorkers(nw, n) ==
    IF nw = "automatic"
    THEN IF n < 1 THEN [exc |-> "ValueError", n |-> 0]
         ELSE IF n < 25 THEN Recommended(4)
         ELSE IF n < 100 THEN Recommended(12)
         ELSE Recommended(32)
    ELSE Recommended(IntOf(nw))

recommend_num_workers(eng, nw, n) ==
    IF eng = "UrlCheck" THEN UrlCheckWorkers(nw, n) ELSE NetworkWorkers(nw, n)

(* ------------------------------------------------------------- the state *)
LinkRow(f, u) == [filePath |-> f, normalizedUrl |-> u]
DoiRow(f, d) == [filePath |-> f, doi |-> d]
FileNo(f) == IF f = "f1" THEN 1 ELSE 2

\* What scan_files can hand to the database: the link rows of the files,
\* one file after the other.
\* The first file that holds a link is called f1.
Scans ==
    {s \in UNION {[1 .. n -> {LinkRow(f, u) : f \in Files, u \in Urls}] : n \in 0 .. MaxLinks} :
        /\ s # <<>> => s[1].filePath = "f1"
        /\ \A i \in 1 .. Len(s) - 1 : FileNo(s[i].filePath) <= FileNo(s[i + 1].filePath)}
\* No link at all, or one file with two links.
PoolScans == {<<>>, <<LinkRow("f1", "u1"), LinkRow("f1", "u2")>>}
\* The scans with at most one link.
ProbeScans == {s \in Scans : Len(s) <= 1}
\* Every file can be read.
AllReadable == [f \in Files |-> "content"]
\* No link, one link in the first file, or that and one in the second.
RunScans == {<<>>, <<LinkRow("f1", "u1")>>,
             <<LinkRow("f1", "u1"), LinkRow("f2", "u2")>>}
\* Every file can be read, or one of the two cannot.
AccessChoices ==
    {AllReadable}
    \cup {[AllReadable EXCEPT ![f] = e] : f \in Files, e \in ReadOutcomes \ {"content"}}
\* The DOI entries of a scanned .bib file.
DoiScans == {<<>>, <<DoiRow("f2", "d1")>>}
\* A .bib file with no DOI, with one, or with two.
RunDoiScans == {<<>>, <<DoiRow("f2", "d1")>>,
                <<DoiRow("f2", "d1"), DoiRow("f2", "d2")>>}
\* A .bib file with up to MaxDois entries, each with a DOI of its own.
ManyDoiScans ==
    {[i \in 1 .. n |-> DoiRow("f1", DoiNames[i])] : n \in 0 .. MaxDois}
\* A long .bib file: up to MaxEntries entries, numbered, each with a DOI of
\* its own.
EntryScans ==
    {[i \in 1 .. n |-> DoiRow("f1", i)] : n \in 0 .. MaxEntries}
\* What check() can be called on.
PathKinds == {"missing", "unsupported", "file", "emptydir", "dir"}
\* Cache files an earlier run can have left: none, or one with an entry for
\* u1 that is half as old as dont_check_again_within_hours allows.
InitialCaches == {EmptyBag, SetToBag({<<"u1", StartTime - 43200>>})}

NUM_API_WORKERS == 5
DoiWorkers == 1 .. NUM_API_WORKERS
\* Values of X-Rate-Limit-Limit the API may send with an interval of 1s.
AdvertisedLimits == {2, 50}
\* A DOI request ends with a status and the rate limit headers, with a
\* status and no such headers (KeyError), or with a timeout.
DoiAnswer(c, m) == [status |-> c, headers |-> m > 0, max_queries |-> m, exc |-> "none"]
DoiTimeout == [status |-> 0, headers |-> FALSE, max_queries |-> 0, exc |-> "TimeoutError"]
DoiOutcomes == {DoiAnswer(c, m) : c \in {200, 404, 500}, m \in AdvertisedLimits \cup {0}}
               \cup {DoiTimeout}
\* The outcome of a run on many DOIs: each is valid, and the API advertises
\* two queries per second.
ManyDoiOutcomes == {DoiAnswer(200, 2)}

\* round(x) of Python for x = n / d: to the nearest integer, a tie to the
\* even one.
round(n, d) ==
    LET q == n \div d
        r == n % d
    IN IF 2 * r > d \/ (2 * r = d /\ q % 2 = 1) THEN q + 1 ELSE q

\* __rate_limit_wait has not been called.
NotCalled == [exc |-> "unset", slept |-> FALSE, num |-> 0, den |-> 1]
\* DoiCheck.__rate_limit_wait(max_queries, seconds): what it raises, whether
\* it gets to asyncio.sleep, and time_to_sleep as the fraction num / den.
\* Both tests are made on max_queries.
rate_limit_wait(mq, sec) ==
    IF mq < 1 THEN [exc |-> "ValueError", slept |-> FALSE, num |-> 0, den |-> 1]
    ELSE IF mq < 1 THEN [exc |-> "ValueError", slept |-> FALSE, num |-> 0, den |-> 1]
    ELSE [exc |-> "none", slept |-> TRUE,
          num |-> sec * NUM_API_WORKERS, den |-> round(mq * 9, 10)]
\* No call of __rate_limit_wait is looked at.
NoWait == max_queries = 0 /\ seconds = 0 /\ time_to_sleep = NotCalled

NoResp == [url |-> NoItem, request_type |-> "none", outcome |-> Raised("none"),
           head |-> 0, at |-> 0, final |-> FALSE]
Zero(S) == [x \in S |-> 0]
NewCounter == [checked_urls |-> 0, fine |-> 0, neededFullRequest |-> 0]

\* A fresh MemoryInstance and fresh UrlCheck/DoiCheck objects.
FreshRun ==
    /\ links = <<>> /\ queue_doi = <<>>
    /\ validUrls = EmptyBag /\ validDois = EmptyBag
    /\ errors = EmptyBag /\ permanentRedirects = EmptyBag
    /\ exceptions = EmptyBag /\ invalidDois = EmptyBag
    /\ queue = <<>> /\ unfinished = 0 /\ session = "none"
    /\ wpc = [w \in Workers |-> "none"] /\ wurl = [w \in Workers |-> NoItem]
    /\ cnt = NewCounter
    /\ dqueue = <<>> /\ dunfinished = 0 /\ dsession = "none"
    /\ dpc = [w \in DoiWorkers |-> "none"] /\ ddoi = [w \in DoiWorkers |-> NoItem]
    /\ dstatus = [w \in DoiWorkers |-> 0]
    /\ valid_doi_list = <<>> /\ invalid_doi_list = <<>>
    /\ dexc = [w \in DoiWorkers |-> "none"] /\ advertised = 0 /\ dfirst = 0
    /\ dseen = Zero(Dois)
    /\ headReqs = Zero(Urls) /\ fullReqs = Zero(Urls) /\ acked = Zero(Urls)
    /\ whead = [w \in Workers |-> 0]
    /\ lastResp = NoResp /\ useen = Zero(Urls)
    /\ run = 1 /\ prevFine = {} /\ path = "-" /\ content = <<>>
    /\ reads = AllReadable
    /\ loadedUrls = EmptyBag /\ loadedDois = EmptyBag
    /\ linkRecords = <<>> /\ doiRecords = <<>> /\ doi_list = <<>>
    /\ fileAccessErrors = EmptyBag

\* Salted.__init__ and the settings the user gives before check().
Init ==
    /\ engine \in {"UrlCheck", "NetworkInteraction"}
    /\ raise_for_dead_links \in BOOLEAN
    /\ num_workers \in WorkerChoices
    /\ num_checks = 0 /\ recommendation = NoRecommendation
    /\ now = StartTime /\ ticks = 0
    /\ diskUrls \in InitialCaches /\ diskDois = EmptyBag /\ diskFile = "sqlite"
    /\ pc = "idle" /\ events = <<>>
    /\ FreshRun /\ NoWait

\* A Salted object with one URL worker and no cache file.
InitDoi ==
    /\ engine = "UrlCheck"
    /\ raise_for_dead_links = FALSE
    /\ num_workers = "1"
    /\ num_checks = 0 /\ recommendation = NoRecommendation
    /\ now = StartTime /\ ticks = 0
    /\ diskUrls = EmptyBag /\ diskDois = EmptyBag /\ diskFile = "sqlite"
    /\ pc = "idle" /\ events = <<>>
    /\ FreshRun /\ NoWait

\* Cache files with one entry for u1 that is half as old as
\* dont_check_again_within_hours allows, exactly as old, or older.
AgedCaches ==
    {SetToBag({<<"u1", StartTime - age>>}) : age \in {43200, 86400, 129600}}
\* A cache file with a DOI that was seen two days ago.
DoiCaches == {EmptyBag, SetToBag({<<"d1", 0>>})}
\* What can stand at the path of the cache file before the first call.
CacheStates ==
    {[file |-> f, urls |-> EmptyBag, dois |-> EmptyBag] :
        f \in {"none", "unopenable", "garbage", "empty"}}
    \cup {[file |-> "no_validUrls", urls |-> EmptyBag, dois |-> d] :
             d \in DoiCaches \ {EmptyBag}}
    \cup {[file |-> "no_validDois", urls |-> u, dois |-> EmptyBag] :
             u \in InitialCaches \ {EmptyBag}}
    \cup {[file |-> "sqlite", urls |-> u, dois |-> d] :
             u \in AgedCaches \cup {EmptyBag}, d \in DoiCaches}

\* A Salted object with one URL worker, and any cache file.
InitRuns ==
    /\ engine = "UrlCheck"
    /\ raise_for_dead_links \in BOOLEAN
    /\ num_workers = "1"
    /\ num_checks = 0 /\ recommendation = NoRecommendation
    /\ now = StartTime /\ ticks = 0
    /\ \E c \in CacheStates :
           diskFile = c.file /\ diskUrls = c.urls /\ diskDois = c.dois
    /\ pc = "idle" /\ events = <<>>
    /\ FreshRun /\ NoWait

\* A prober object that is asked for its number of workers: the probe set
\* has any size up to MaxChecks.
InitWorkers ==
    /\ engine \in {"UrlCheck", "NetworkInteraction"}
    /\ raise_for_dead_links = FALSE
    /\ num_workers \in WorkerChoices
    /\ num_checks \in 0 .. MaxChecks /\ recommendation = NoRecommendation
    /\ now = StartTime /\ ticks = 0
    /\ diskUrls = EmptyBag /\ diskDois = EmptyBag /\ diskFile = "sqlite"
    /\ pc = "idle" /\ events = <<>>
    /\ FreshRun /\ NoWait

\* A DoiCheck object whose worker has got a response with any pair of
\* rate limit headers an int() can be made of.
InitRate ==
    /\ engine = "UrlCheck"
    /\ raise_for_dead_links = FALSE
    /\ num_workers = "1"
    /\ num_checks = 0 /\ recommendation = NoRecommendation
    /\ now = StartTime /\ ticks = 0
    /\ diskUrls = EmptyBag /\ diskDois = EmptyBag /\ diskFile = "sqlite"
    /\ pc = "idle" /\ events = <<>>
    /\ FreshRun
    /\ max_queries \in -1 .. MaxQueries
    /\ seconds \in -1 .. MaxSeconds
    /\ time_to_sleep = NotCalled

\* await self.__rate_limit_wait(max_queries, seconds)
RateLimitWait ==
    /\ pc = "idle"
    /\ time_to_sleep = NotCalled
    /\ time_to_sleep' = rate_limit_wait(max_queries, seconds)
    /\ UNCHANGED <<cfgVars, max_queries, seconds, scanVars, poolVars, now, ticks,
                   diskVars, pc, events, dbVars, urlVars, doiVars, ghostVars>>

\* self.num_workers = self.__recommend_num_workers(num_checks)
Recommend ==
    /\ pc = "idle"
    /\ recommendation.exc = "unset"
    /\ recommendation' = recommend_num_workers(engine, num_workers, num_checks)
    /\ UNCHANGED <<cfgVars, waitVars, scanVars, num_checks, now, ticks, diskVars, pc, events, dbVars,
                   urlVars, doiVars, ghostVars>>

(* ------------------------------------------------- check(): up to the scan *)
\* The files find_files_by_extensions finds in a folder, in scan order.
FilesFound == <<"f1", "f2">>
\* The link rows of file f.
LinksIn(rows, f) == SelectSeq(rows, LAMBDA x : x.filePath = f)
\* The file check() is called on when the searchpath is a single file.
SingleFile == "f1"
\* The tables before scan_files.
NoScan == [links |-> <<>>, queue_doi |-> <<>>, doi_list |-> <<>>,
           fileAccessErrors |-> EmptyBag, scanned |-> {}, raised |-> FALSE]

\* check(), lines 130-173: new in-memory database, load_disk_cache, the path
\* tests, scan_files, generate_indices and the two deletes.  The objects of
\* the call before (database, prober, counters) are out of reach.
CheckBegin(kind, scan, dois, access) ==
    /\ pc = "idle"
    /\ LET cache == load_disk_cache(diskFile, diskUrls, diskDois, now,
                                    dont_check_again_within_hours)
           found == IF cache.exc = "none" /\ kind = "dir"
                    THEN scan_files(FilesFound, access, scan, dois, NoScan)
                    ELSE NoScan
       IN /\ path' = kind
          /\ reads' = IF kind = "dir" THEN access ELSE AllReadable
          /\ content' = IF kind = "dir" THEN scan
                        ELSE IF kind = "file" THEN LinksIn(scan, SingleFile)
                        ELSE <<>>
          /\ diskFile' = cache.file
          /\ validUrls' = create_schema(validUrls) (+) cache.urls
          /\ validDois' = create_schema(validDois) (+) cache.dois
          /\ loadedUrls' = cache.urls
          /\ loadedDois' = cache.dois
          /\ linkRecords' = found.links
          /\ doiRecords' = found.queue_doi
          /\ doi_list' = found.doi_list
          /\ fileAccessErrors' = create_schema(fileAccessErrors)
                                    (+) found.fileAccessErrors
          /\ links' = del_links_that_can_be_skipped(found.links, validUrls')
          /\ queue_doi' = del_dois_that_can_be_skipped(found.queue_doi, validDois')
          /\ pc' = CASE cache.exc # "none" -> cache.exc
                     [] kind = "missing" -> "FileNotFoundError"
                     [] kind = "unsupported" -> "ValueError"
                     [] kind = "emptydir" -> "returned"
                     [] found.raised -> "OSError"
                     [] OTHER -> "check_urls"
    /\ errors' = create_schema(errors)
    /\ permanentRedirects' = create_schema(permanentRedirects)
    /\ exceptions' = create_schema(exceptions)
    /\ invalidDois' = create_schema(invalidDois)
    /\ events' = <<>>
    /\ queue' = <<>> /\ unfinished' = 0 /\ session' = "none"
    /\ wpc' = [w \in Workers |-> "none"] /\ wurl' = [w \in Workers |-> NoItem]
    /\ cnt' = NewCounter
    /\ num_checks' = 0 /\ recommendation' = NoRecommendation
    /\ dqueue' = <<>> /\ dunfinished' = 0 /\ dsession' = "none"
    /\ dpc' = [w \in DoiWorkers |-> "none"] /\ ddoi' = [w \in DoiWorkers |-> NoItem]
    /\ dstatus' = [w \in DoiWorkers |-> 0]
    /\ valid_doi_list' = <<>> /\ invalid_doi_list' = <<>>
    /\ dexc' = [w \in DoiWorkers |-> "none"] /\ advertised' = 0 /\ dfirst' = 0
    /\ dseen' = Zero(Dois)
    /\ headReqs' = Zero(Urls) /\ fullReqs' = Zero(Urls) /\ acked' = Zero(Urls)
    /\ whead' = [w \in Workers |-> 0]
    /\ lastResp' = NoResp /\ useen' = Zero(Urls)
    /\ UNCHANGED <<cfgVars, waitVars, run, prevFine, now, ticks, diskUrls, diskDois>>

\* The ways check() comes back to its caller: it returns, or it raises.
Ended == {"done", "returned", "FileNotFoundError", "ValueError",
          "DeadLinksException", "UnboundLocalError", "OSError"}
\* The validUrls rows this call has logged: those of the URLs it probed.
FineThisRun == {r \in BagToSet(validUrls) : headReqs[r[1]] > 0}
\* The time between two calls of check(), in seconds: none, or all of
\* dont_check_again_within_hours.
Waits == {0, 86400}
\* check() has come back; after dt seconds the caller calls it again on the
\* same object.
NextRun(dt) ==
    /\ pc \in Ended
    /\ run < MaxRuns
    /\ pc' = "idle"
    /\ run' = run + 1
    /\ now' = now + dt
    /\ prevFine' = FineThisRun
    /\ UNCHANGED <<cfgVars, waitVars, path, content, reads, loadedUrls, loadedDois, linkRecords, doiRecords,
                   doi_list, fileAccessErrors, poolVars, ticks, diskVars, events, dbVars,
                   urlVars, doiVars, ghostVars>>

\* The clock moves on while requests are in flight.
InFlight ==
    \/ pc = "url_join" /\ \E w \in Workers : wpc[w] \in {"head", "full"}
    \/ pc = "doi_join" /\ \E w \in DoiWorkers : dpc[w] \in {"request", "sleep"}
Tick ==
    /\ InFlight
    /\ ticks < MaxTicks
    /\ now' = now + 43200
    /\ ticks' = ticks + 1
    /\ UNCHANGED <<cfgVars, waitVars, scanVars, poolVars, diskVars, pc, events, dbVars, urlVars, doiVars, ghostVars>>


(* ------------------------------------------------------------ URL phase *)
\* validate_url starts: UrlCheck counts the URL, the first request is sent.
Started(c) ==
    IF engine = "UrlCheck" THEN [c EXCEPT !.checked_urls = @ + 1] ELSE c

\* A worker without `while True`: its task ends after the first item.
TakeNextOnce(w, c) ==
    /\ queue' = queue
    /\ wurl' = [wurl EXCEPT ![w] = NoItem]
    /\ wpc' = [wpc EXCEPT ![w] = "returned"]
    /\ headReqs' = headReqs
    /\ cnt' = c

\* queue.get() of worker w: it takes the head of the queue and sends the
\* first request, or waits on the empty queue.
TakeNext(w, c) ==
    IF queue # <<>>
    THEN /\ queue' = Tail(queue)
         /\ wurl' = [wurl EXCEPT ![w] = Head(queue)]
         /\ wpc' = [wpc EXCEPT ![w] = "head"]
         /\ headReqs' = [headReqs EXCEPT ![Head(queue)] = @ + 1]
         /\ cnt' = Started(c)
    ELSE /\ queue' = queue
         /\ wurl' = [wurl EXCEPT ![w] = NoItem]
         /\ wpc' = [wpc EXCEPT ![w] = "get"]
         /\ headReqs' = headReqs
         /\ cnt' = c

\* check_urls and __distribute_work up to `await queue.join()`.
CheckUrls ==
    /\ pc = "check_urls"
    /\ LET todo == urls_to_check(links)
       IN IF todo = <<>>
          THEN /\ pc' = "check_dois"
               /\ events' = events \o <<"urls", "urls_done">>
               /\ UNCHANGED <<urlVars, poolVars>>
          ELSE /\ pc' = "url_join"
               /\ events' = Append(events, "urls")
               /\ queue' = todo
               /\ unfinished' = Len(todo)
               /\ session' = "open"
               /\ num_checks' = Len(todo)
               /\ recommendation' = recommend_num_workers(engine, num_workers, Len(todo))
               /\ wpc' = [w \in Workers |->
                             IF w <= recommendation'.n THEN "new" ELSE "none"]
               /\ UNCHANGED <<wurl, cnt>>
    /\ UNCHANGED <<cfgVars, waitVars, scanVars, now, ticks, diskVars, dbVars, doiVars, ghostVars>>

\* A __distribute_work that creates one task more than recommended.
RECURSIVE StartTaskExtra(_, _)
StartTaskExtra(w, st) ==
    IF w > recommendation.n + 1 \/ w \notin Workers THEN st
    ELSE IF st.queue # <<>>
    THEN StartTaskExtra(w + 1,
             [queue |-> Tail(st.queue),
              wurl |-> [st.wurl EXCEPT ![w] = Head(st.queue)],
              wpc |-> [st.wpc EXCEPT ![w] = "head"],
              headReqs |-> [st.headReqs EXCEPT ![Head(st.queue)] = @ + 1],
              cnt |-> Started(st.cnt)])
    ELSE StartTaskExtra(w + 1, [st EXCEPT !.wpc[w] = "get"])

\* One worker task runs for the first time.
RECURSIVE StartTask(_, _)
StartTask(w, st) ==
    IF w > recommendation.n THEN st
    ELSE IF st.queue # <<>>
    THEN StartTask(w + 1,
             [queue |-> Tail(st.queue),
              wurl |-> [st.wurl EXCEPT ![w] = Head(st.queue)],
              wpc |-> [st.wpc EXCEPT ![w] = "head"],
              headReqs |-> [st.headReqs EXCEPT ![Head(st.queue)] = @ + 1],
              cnt |-> Started(st.cnt)])
    ELSE StartTask(w + 1, [st EXCEPT !.wpc[w] = "get"])

\* The first turn of the event loop after `await queue.join()` suspends the
\* main task: every worker task starts, in creation order, and runs up to
\* its first suspension.
UrlTasksStart ==
    /\ pc = "url_join"
    /\ \E w \in Workers : wpc[w] = "new"
    /\ LET st == StartTask(1, [queue |-> queue, wurl |-> wurl, wpc |-> wpc,
                               headReqs |-> headReqs, cnt |-> cnt])
       IN /\ queue' = st.queue /\ wurl' = st.wurl /\ wpc' = st.wpc
          /\ headReqs' = st.headReqs /\ cnt' = st.cnt
    /\ UNCHANGED <<cfgVars, waitVars, scanVars, poolVars, now, ticks, diskVars, pc, events, dbVars, unfinished,
                   session, doiVars, fullReqs, acked, whead, lastResp, useen>>

\* The request of worker w ends with outcome o: the rest of validate_url,
\* then pbar.update, task_done and the next queue.get().
UrlResponse(w, o) ==
    /\ pc = "url_join"
    /\ wpc[w] \in {"head", "full"}
    /\ LET url == wurl[w]
           request_type == wpc[w]
           v == validate_url(engine, request_type, o)
           t == LoggedAll([validUrls |-> validUrls,
                           permanentRedirects |-> permanentRedirects,
                           errors |-> errors, exceptions |-> exceptions],
                          db_calls(engine, request_type, o), url, now)
           c1 == IF request_type = "full" /\ o.exc = "none"
                 THEN [cnt EXCEPT !.neededFullRequest = @ + 1] ELSE cnt
           c2 == IF v.class = "fine" THEN [c1 EXCEPT !.fine = @ + 1] ELSE c1
       IN /\ lastResp' = [url |-> url, request_type |-> request_type, outcome |-> o,
                          head |-> whead[w], at |-> now, final |-> v.class # "full"]
          /\ useen' = IF v.class \in {"full", "raise"} THEN useen
                       ELSE [useen EXCEPT ![url] = o.status]
          /\ validUrls' = t.validUrls
          /\ permanentRedirects' = t.permanentRedirects
          /\ errors' = t.errors
          /\ exceptions' = t.exceptions
          /\ CASE v.class = "full" ->
                    \* await self.validate_url(url, 'full'): the GET is sent
                    /\ wpc' = [wpc EXCEPT ![w] = "full"]
                    /\ whead' = [whead EXCEPT ![w] = o.status]
                    /\ fullReqs' = [fullReqs EXCEPT ![url] = @ + 1]
                    /\ cnt' = c2
                    /\ UNCHANGED <<queue, wurl, unfinished, headReqs, acked>>
               [] v.class = "raise" ->
                    \* the exception leaves validate_url and ends the task
                    /\ wpc' = [wpc EXCEPT ![w] = "raised"]
                    /\ whead' = [whead EXCEPT ![w] = 0]
                    /\ cnt' = c2
                    /\ UNCHANGED <<queue, wurl, unfinished, headReqs, fullReqs, acked>>
               [] OTHER ->
                    /\ unfinished' = unfinished - 1
                    /\ acked' = [acked EXCEPT ![url] = @ + 1]
                    /\ whead' = [whead EXCEPT ![w] = 0]
                    /\ TakeNext(w, c2)
                    /\ UNCHANGED fullReqs
    /\ UNCHANGED <<cfgVars, waitVars, scanVars, poolVars, now, ticks, diskVars, pc, events, links, queue_doi,
                   validDois, invalidDois, session, doiVars>>

\* A __distribute_work that waits for the queue to be empty and not for
\* queue.join().
UrlJoinReturnsOnEmpty ==
    /\ pc = "url_join"
    /\ queue = <<>>
    /\ \A w \in Workers : wpc[w] # "new"
    /\ pc' = "url_gather"
    /\ wpc' = [w \in Workers |-> IF wpc[w] = "get" THEN "cancelling" ELSE wpc[w]]
    /\ session' = "closed"
    /\ lastResp' = NoResp
    /\ UNCHANGED <<cfgVars, waitVars, scanVars, poolVars, now, ticks, diskVars, events, dbVars, queue, unfinished,
                   wurl, cnt, doiVars, headReqs, fullReqs, acked, whead, useen>>

\* queue.join() returns: every task is cancelled, the session is closed.
UrlJoinReturns ==
    /\ pc = "url_join"
    /\ unfinished = 0
    /\ \A w \in Workers : wpc[w] # "new"
    /\ pc' = "url_gather"
    /\ wpc' = [w \in Workers |-> IF wpc[w] = "get" THEN "cancelling" ELSE wpc[w]]
    /\ session' = "closed"
    /\ lastResp' = NoResp
    /\ UNCHANGED <<cfgVars, waitVars, scanVars, poolVars, now, ticks, diskVars, events, dbVars, queue, unfinished,
                   wurl, cnt, doiVars, headReqs, fullReqs, acked, whead, useen>>

\* asyncio.gather(*tasks, return_exceptions=True): CancelledError is thrown
\* into every worker waiting in queue.get(), gather returns, check_urls
\* returns.
UrlGather ==
    /\ pc = "url_gather"
    /\ pc' = "check_dois"
    /\ wpc' = [w \in Workers |-> IF wpc[w] = "cancelling" THEN "cancelled" ELSE wpc[w]]
    /\ events' = Append(events, "urls_done")
    /\ UNCHANGED <<cfgVars, waitVars, scanVars, poolVars, now, ticks, diskVars, dbVars, queue, unfinished,
                   session, wurl, cnt, doiVars, ghostVars>>

(* ------------------------------------------------------------ DOI phase *)
\* queue.get() of DOI worker w.
DoiTakeNext(w) ==
    IF dqueue # <<>>
    THEN /\ dqueue' = Tail(dqueue)
         /\ ddoi' = [ddoi EXCEPT ![w] = Head(dqueue)]
         /\ dpc' = [dpc EXCEPT ![w] = "request"]
    ELSE /\ dqueue' = dqueue
         /\ ddoi' = [ddoi EXCEPT ![w] = NoItem]
         /\ dpc' = [dpc EXCEPT ![w] = "get"]

\* check_dois and __distribute_work up to `await queue.join()`.
CheckDois ==
    /\ pc = "check_dois"
    /\ LET todo == get_dois_to_check(queue_doi)
       IN IF todo = <<>>
          THEN /\ pc' = "views"
               /\ events' = events \o <<"dois", "dois_done">>
               /\ UNCHANGED doiVars
          ELSE /\ pc' = "doi_join"
               /\ events' = Append(events, "dois")
               /\ dqueue' = todo
               /\ dunfinished' = Len(todo)
               /\ dsession' = "open"
               /\ dpc' = [w \in DoiWorkers |-> "new"]
               /\ UNCHANGED <<ddoi, dstatus, valid_doi_list, invalid_doi_list, rateVars>>
    /\ UNCHANGED <<cfgVars, waitVars, scanVars, poolVars, now, ticks, diskVars, dbVars, urlVars, ghostVars>>

\* The first turn of the event loop: every DOI worker task starts.
DoiTasksStart ==
    /\ pc = "doi_join"
    /\ \E w \in DoiWorkers : dpc[w] = "new"
    /\ dqueue' = SubSeq(dqueue, NUM_API_WORKERS + 1, Len(dqueue))
    /\ ddoi' = [w \in DoiWorkers |-> IF w <= Len(dqueue) THEN dqueue[w] ELSE NoItem]
    /\ dpc' = [w \in DoiWorkers |-> IF w <= Len(dqueue) THEN "request" ELSE "get"]
    /\ dfirst' = Cardinality({w \in DoiWorkers : w <= Len(dqueue)})
    /\ UNCHANGED <<cfgVars, waitVars, scanVars, poolVars, now, ticks, diskVars, pc, events, dbVars, urlVars,
                   dunfinished, dsession, dstatus, valid_doi_list,
                   invalid_doi_list, dexc, advertised, dseen, ghostVars>>

\* A worker that takes every status but 404 for a valid DOI.
DoiResponseNot404(w, o) ==
    /\ pc = "doi_join"
    /\ dpc[w] = "request"
    /\ IF o.exc # "none" \/ ~o.headers
       THEN /\ dpc' = [dpc EXCEPT ![w] = "raised"]
            /\ dexc' = [dexc EXCEPT ![w] = IF o.exc # "none" THEN o.exc ELSE "KeyError"]
            /\ UNCHANGED <<dstatus, valid_doi_list, invalid_doi_list, advertised, dseen>>
       ELSE /\ dpc' = [dpc EXCEPT ![w] = "sleep"]
            /\ dexc' = dexc
            /\ advertised' = o.max_queries
            /\ dseen' = [dseen EXCEPT ![ddoi[w]] = o.status]
            /\ dstatus' = [dstatus EXCEPT ![w] = o.status]
            /\ valid_doi_list' = IF o.status # 404
                                 THEN Append(valid_doi_list, ddoi[w])
                                 ELSE valid_doi_list
            /\ invalid_doi_list' = IF o.status = 404
                                   THEN Append(invalid_doi_list, ddoi[w])
                                   ELSE invalid_doi_list
    /\ UNCHANGED <<cfgVars, waitVars, scanVars, poolVars, now, ticks, diskVars, pc, events, dbVars, urlVars,
                   dqueue, dunfinished, dsession, ddoi, dfirst, ghostVars>>

\* __api_send_head_request returns or raises; the worker has no try block.
DoiResponse(w, o) ==
    /\ pc = "doi_join"
    /\ dpc[w] = "request"
    /\ IF o.exc # "none" \/ ~o.headers
       THEN /\ dpc' = [dpc EXCEPT ![w] = "raised"]
            /\ dexc' = [dexc EXCEPT ![w] = IF o.exc # "none" THEN o.exc ELSE "KeyError"]
            /\ UNCHANGED <<dstatus, valid_doi_list, invalid_doi_list, advertised, dseen>>
       ELSE /\ dpc' = [dpc EXCEPT ![w] = "sleep"]
            /\ dexc' = dexc
            /\ advertised' = o.max_queries
            /\ dseen' = [dseen EXCEPT ![ddoi[w]] = o.status]
            /\ dstatus' = [dstatus EXCEPT ![w] = o.status]
            /\ valid_doi_list' = IF o.status = 200
                                 THEN Append(valid_doi_list, ddoi[w])
                                 ELSE valid_doi_list
            /\ invalid_doi_list' = IF o.status = 404
                                   THEN Append(invalid_doi_list, ddoi[w])
                                   ELSE invalid_doi_list
    /\ UNCHANGED <<cfgVars, waitVars, scanVars, poolVars, now, ticks, diskVars, pc, events, dbVars, urlVars,
                   dqueue, dunfinished, dsession, ddoi, dfirst, ghostVars>>

\* The sleep of __rate_limit_wait ends: pbar.update, task_done, queue.get().
DoiSleepDone(w) ==
    /\ pc = "doi_join"
    /\ dpc[w] = "sleep"
    /\ dunfinished' = dunfinished - 1
    /\ dstatus' = [dstatus EXCEPT ![w] = 0]
    /\ DoiTakeNext(w)
    /\ UNCHANGED <<cfgVars, waitVars, scanVars, poolVars, now, ticks, diskVars, pc, events, dbVars, urlVars,
                   dsession, valid_doi_list, invalid_doi_list, rateVars, ghostVars>>

DoiJoinReturns ==
    /\ pc = "doi_join"
    /\ dunfinished = 0
    /\ \A w \in DoiWorkers : dpc[w] # "new"
    /\ pc' = "doi_gather"
    /\ dpc' = [w \in DoiWorkers |-> IF dpc[w] = "get" THEN "cancelling" ELSE dpc[w]]
    /\ dsession' = "closed"
    /\ UNCHANGED <<cfgVars, waitVars, scanVars, poolVars, now, ticks, diskVars, events, dbVars, urlVars, dqueue,
                   dunfinished, ddoi, dstatus, valid_doi_list, invalid_doi_list,
                   rateVars, ghostVars>>

\* gather: the waiting workers end with CancelledError; check_dois saves
\* the two lists and returns.
DoiGather ==
    /\ pc = "doi_gather"
    /\ pc' = "views"
    /\ dpc' = [w \in DoiWorkers |-> IF dpc[w] = "cancelling" THEN "cancelled" ELSE dpc[w]]
    /\ events' = Append(events, "dois_done")
    /\ validDois' = save_valid_dois(validDois, valid_doi_list, now)
    /\ invalidDois' = log_invalid_dois(invalidDois, invalid_doi_list)
    /\ UNCHANGED <<cfgVars, waitVars, scanVars, poolVars, now, ticks, diskVars, links, queue_doi, validUrls,
                   errors, permanentRedirects, exceptions, urlVars, dqueue,
                   dunfinished, dsession, ddoi, dstatus, valid_doi_list,
                   invalid_doi_list, rateVars, ghostVars>>

(* ------------------------------------------------------ check(): the tail *)
\* mem_instance.generate_db_views()
GenerateViews ==
    /\ pc = "views"
    /\ pc' = "report"
    /\ events' = Append(events, "views")
    /\ UNCHANGED <<cfgVars, waitVars, scanVars, poolVars, now, ticks, diskVars, dbVars, urlVars, doiVars, ghostVars>>

\* display_result.generate_report(...)
GenerateReport ==
    /\ pc = "report"
    /\ pc' = "gate"
    /\ events' = Append(events, "report")
    /\ UNCHANGED <<cfgVars, waitVars, scanVars, poolVars, now, ticks, diskVars, dbVars, urlVars, doiVars, ghostVars>>

\* A gate that takes a row in any result table for a dead link.
DeadLinksGateAnyRow ==
    /\ pc = "gate"
    /\ IF raise_for_dead_links
          /\ count_errors(errors (+) permanentRedirects (+) exceptions) > 0
       THEN /\ pc' = "DeadLinksException"
            /\ events' = Append(events, "raise")
       ELSE /\ pc' = "overwrite"
            /\ events' = events
    /\ UNCHANGED <<cfgVars, waitVars, scanVars, poolVars, now, ticks, diskVars, dbVars, urlVars, doiVars, ghostVars>>

\* if self.raise_for_dead_links: if db.count_errors() > 0: raise
DeadLinksGate ==
    /\ pc = "gate"
    /\ IF raise_for_dead_links /\ count_errors(errors) > 0
       THEN /\ pc' = "DeadLinksException"
            /\ events' = Append(events, "raise")
       ELSE /\ pc' = "overwrite"
            /\ events' = events
    /\ UNCHANGED <<cfgVars, waitVars, scanVars, poolVars, now, ticks, diskVars, dbVars, urlVars, doiVars, ghostVars>>

\* cache_handler.overwrite_cache_file(), first statement: the old file is
\* unlinked.
unlink_cache_file ==
    /\ pc = "overwrite"
    /\ pc' = "backup"
    /\ diskFile' = "none"
    /\ diskUrls' = EmptyBag
    /\ diskDois' = EmptyBag
    /\ UNCHANGED <<cfgVars, waitVars, scanVars, poolVars, now, ticks, events, dbVars, urlVars,
                   doiVars, ghostVars>>

\* cache_handler.overwrite_cache_file(), the rest: a new file is created
\* and the in-memory database is copied into it.
overwrite_cache_file ==
    /\ pc = "backup"
    /\ pc' = "teardown"
    /\ events' = Append(events, "cache")
    /\ diskFile' = "sqlite"
    /\ diskUrls' = validUrls
    /\ diskDois' = validDois
    /\ UNCHANGED <<cfgVars, waitVars, scanVars, poolVars, now, ticks, dbVars, urlVars, doiVars, ghostVars>>

\* mem_instance.tear_down_in_memory_db(); check() returns.
tear_down_in_memory_db ==
    /\ pc = "teardown"
    /\ pc' = "done"
    /\ UNCHANGED <<cfgVars, waitVars, scanVars, poolVars, now, ticks, diskVars, events, dbVars, urlVars,
                   doiVars, ghostVars>>

(* -------------------------------------------------------- specifications *)
\* The steps of a run that take no input.
Steps ==
    \/ CheckUrls
    \/ UrlTasksStart
    \/ UrlJoinReturns
    \/ UrlGather
    \/ CheckDois
    \/ DoiTasksStart
    \/ \E w \in DoiWorkers : DoiSleepDone(w)
    \/ DoiJoinReturns
    \/ DoiGather
    \/ GenerateViews
    \/ GenerateReport
    \/ DeadLinksGate
    \/ unlink_cache_file
    \/ overwrite_cache_file
    \/ tear_down_in_memory_db

\* The whole of check() on every scan, the clock standing still.
Next ==
    \/ \E k \in PathKinds, s \in Scans, d \in DoiScans : CheckBegin(k, s, d, AllReadable)
    \/ \E w \in Workers, o \in RunOutcomes : UrlResponse(w, o)
    \/ \E w \in DoiWorkers, o \in DoiOutcomes : DoiResponse(w, o)
    \/ Steps

Spec == Init /\ [][Next]_vars

\* check() on a scan with at most one link, every outcome of a request, the
\* clock moving.
NextProbe ==
    \/ \E k \in PathKinds, s \in ProbeScans, d \in DoiScans : CheckBegin(k, s, d, AllReadable)
    \/ \E w \in Workers, o \in AllOutcomes : UrlResponse(w, o)
    \/ \E w \in DoiWorkers, o \in DoiOutcomes : DoiResponse(w, o)
    \/ Tick
    \/ Steps

SpecProbe == Init /\ [][NextProbe]_vars

\* check() on a folder with up to MaxDois DOIs and with no hyperlink or
\* with two, all of them valid.
NextDoi ==
    \/ \E s \in PoolScans, d \in ManyDoiScans : CheckBegin("dir", s, d, AllReadable)
    \/ CheckUrls
    \/ UrlTasksStart
    \/ \E w \in Workers : UrlResponse(w, Status(200))
    \/ UrlJoinReturns
    \/ UrlGather
    \/ CheckDois
    \/ DoiTasksStart
    \/ \E w \in DoiWorkers, o \in ManyDoiOutcomes : DoiResponse(w, o)
    \/ \E w \in DoiWorkers : DoiSleepDone(w)
    \/ DoiJoinReturns
    \/ DoiGather
    \/ GenerateViews
    \/ GenerateReport
    \/ DeadLinksGate
    \/ unlink_cache_file
    \/ overwrite_cache_file
    \/ tear_down_in_memory_db

SpecDoi == InitDoi /\ [][NextDoi]_vars

\* The URL phase when every request is answered in the end, with a status
\* or with an exception validate_url names, and the event loop runs every
\* task that can run.
LiveOutcomes == {Status(200), Status(403), Raised("TimeoutError")}
NextLive ==
    \/ \E s \in Scans : CheckBegin("dir", s, <<>>, AllReadable)
    \/ CheckUrls
    \/ UrlTasksStart
    \/ \E w \in Workers, o \in LiveOutcomes : UrlResponse(w, o)
    \/ UrlJoinReturns
    \/ UrlGather
    \/ CheckDois
    \/ GenerateViews
    \/ GenerateReport
    \/ DeadLinksGate
    \/ unlink_cache_file
    \/ overwrite_cache_file
    \/ tear_down_in_memory_db

Fairness ==
    /\ WF_vars(UrlTasksStart)
    /\ \A w \in Workers : WF_vars(\E o \in LiveOutcomes : UrlResponse(w, o))
    /\ WF_vars(UrlJoinReturns)
    /\ WF_vars(UrlGather)

SpecLive == Init /\ [][NextLive]_vars /\ Fairness

\* __recommend_num_workers on probe sets of every size up to MaxChecks.
NextWorkers == Recommend
SpecWorkers == InitWorkers /\ [][NextWorkers]_vars

\* Up to MaxRuns calls of check() on one object with one URL worker, on
\* every kind of path and of cache file, time passing between the calls;
\* a link works or is dead, a DOI is valid or not.
RunOutcomeChoices == {Status(200), Status(404)}
RunDoiOutcomes == {DoiAnswer(200, 50), DoiAnswer(404, 50)}
NextRuns ==
    \/ \E k \in PathKinds, s \in RunScans, d \in RunDoiScans :
           CheckBegin(k, s, d, AllReadable)
    \/ \E w \in Workers, o \in RunOutcomeChoices : UrlResponse(w, o)
    \/ \E w \in DoiWorkers, o \in RunDoiOutcomes : DoiResponse(w, o)
    \/ Steps
    \/ \E dt \in Waits : NextRun(dt)

SpecRuns == InitRuns /\ [][NextRuns]_vars

\* One call of check() on a folder of two files, each of which may fail to
\* be read in every way read_file_content tells apart.
NextScan ==
    \/ \E k \in PathKinds, s \in RunScans, d \in DoiScans, a \in AccessChoices :
           CheckBegin(k, s, d, a)
    \/ \E w \in Workers, o \in RunOutcomeChoices : UrlResponse(w, o)
    \/ \E w \in DoiWorkers, o \in RunDoiOutcomes : DoiResponse(w, o)
    \/ Steps

SpecScan == InitDoi /\ [][NextScan]_vars

\* One call of check() on a folder of two files, one of which may fail to be
\* read, with raise_for_dead_links set or not; the two links are to two
\* URLs or to the same one; a link works, is moved for good, is dead, or
\* its request times out.
GateScans == {<<LinkRow("f1", "u1"), LinkRow("f2", "u2")>>,
              <<LinkRow("f2", "u1"), LinkRow("f2", "u2")>>,
              <<LinkRow("f1", "u1"), LinkRow("f2", "u1")>>,
              <<LinkRow("f2", "u1"), LinkRow("f2", "u1")>>}
GateOutcomes == {Status(200), Status(301), Status(404), Raised("TimeoutError")}
NextGate ==
    \/ \E k \in PathKinds, s \in GateScans, d \in DoiScans, a \in AccessChoices :
           CheckBegin(k, s, d, a)
    \/ \E w \in Workers, o \in GateOutcomes : UrlResponse(w, o)
    \/ \E w \in DoiWorkers, o \in RunDoiOutcomes : DoiResponse(w, o)
    \/ Steps

SpecGate == InitRuns /\ [][NextGate]_vars

\* The scan of a folder whose one .bib file holds up to MaxEntries entries.
NextEntries == \E d \in EntryScans : CheckBegin("dir", <<>>, d, AllReadable)

SpecEntries == InitDoi /\ [][NextEntries]_vars

\* __rate_limit_wait on every pair of headers up to MaxQueries queries in
\* MaxSeconds seconds.
NextRate == RateLimitWait
SpecRate == InitRate /\ [][NextRate]_vars


(* ============================================================ properties *)
Has(e) == \E i \in 1 .. Len(events) : events[i] = e
\* The tables a URL is classified in, counted by rows.
Classifications(u) ==
    RowsOf(validUrls, u) + RowsOf(errors, u)
    + RowsOf(permanentRedirects, u) + RowsOf(exceptions, u)

\* C1 (as claimed): when check() ends with DeadLinksException, the cache
\* file has been rewritten before with this run's validUrls and validDois.
C1_RaiseAfterCacheWritten ==
    pc = "DeadLinksException" =>
        /\ Has("cache")
        /\ diskUrls = validUrls
        /\ diskDois = validDois

\* C2 (as claimed): the phases of a run happen in the order URL phase, DOI
\* phase, views, cache write, report: a run whose report is rendered has
\* gone through the two probe phases and the views, and has written its
\* cache file.
C2_CacheBeforeReport ==
    Has("report") =>
        /\ Has("urls_done") /\ Has("dois_done") /\ Has("views")
        /\ Has("cache")

\* The normalized URLs of the probe set of this run.
ProbeSet == {links[i].normalizedUrl : i \in 1 .. Len(links)}
\* How often u stands on the queue, and how many workers hold it.
OnQueue(u) == Cardinality({i \in 1 .. Len(queue) : queue[i] = u})
Holding(u) == Cardinality({w \in Workers : wurl[w] = u})
\* The result tables that hold a row for u.
TablesWith(u) ==
    {n \in {"validUrls", "errors", "permanentRedirects", "exceptions"} :
        RowsOf([validUrls |-> validUrls, errors |-> errors,
                permanentRedirects |-> permanentRedirects,
                exceptions |-> exceptions][n], u) > 0}
\* The last response was the one to request type rt and had status code c.
Answered(rt, c) ==
    /\ lastResp.url # NoItem
    /\ lastResp.request_type = rt
    /\ lastResp.outcome = Status(c)

\* C3 (as claimed): when the URL phase has ended, every URL of the probe set
\* has exactly one row in the four result tables together, and a request
\* that raised an exception outside the taxonomy has left the exception row
\* "Unknown" for its URL.
C3_ClassifiedExactlyOnce ==
    /\ Has("urls_done") => \A u \in ProbeSet : Classifications(u) = 1
    /\ (lastResp.url # NoItem /\ lastResp.outcome.exc = "InvalidURL") =>
           <<lastResp.url, <<"Unknown", 0>>>> \in BagToSet(exceptions)

\* C4: no URL has rows in more than one of validUrls, errors,
\* permanentRedirects, exceptions, and while the fallback GET of a URL is in
\* flight the first response has left no row for it in any of them.
C4_Disjoint ==
    /\ \A u \in Urls : Cardinality(TablesWith(u)) <= 1
    /\ \A w \in Workers : wpc[w] = "full" => Classifications(wurl[w]) = 0

\* C4 witness: a URL answered 403 to HEAD and 200 to the fallback GET, and
\* is in validUrls only.
C4_Witness ==
    /\ Answered("full", 200)
    /\ lastResp.head = 403
    /\ TablesWith(lastResp.url) = {"validUrls"}

\* C5: every URL gets at most one first request; from the moment the queue
\* is filled every URL of the probe set is exactly once on the queue, in
\* the hands of one worker, or acknowledged, and no other URL is.
C5_ProbedAtMostOnce ==
    \A u \in Urls :
        /\ headReqs[u] <= 1
        /\ OnQueue(u) + Holding(u) + acked[u] <= 1
        /\ headReqs[u] = Holding(u) + acked[u]
        /\ (Has("urls") /\ u \in ProbeSet) => OnQueue(u) + Holding(u) + acked[u] = 1

\* C5 witness: two files link to the same URL, two workers ran, and the
\* URL was probed and acknowledged once.
C5_Witness ==
    /\ pc = "done"
    /\ num_workers = "2"
    /\ Len(links) = 2
    /\ links[1].normalizedUrl = links[2].normalizedUrl
    /\ links[1].filePath # links[2].filePath
    /\ headReqs[links[1].normalizedUrl] = 1
    /\ acked[links[1].normalizedUrl] = 1

\* C6 (as claimed): no worker task ever ends with an exception; a request
\* that raised one outside the taxonomy is acknowledged and the worker is
\* back at the queue.
C6_UnknownExceptionContained ==
    /\ \A w \in Workers : wpc[w] # "raised"
    /\ (lastResp.url # NoItem /\ lastResp.outcome.exc = "InvalidURL") =>
           /\ acked[lastResp.url] = 1
           /\ Holding(lastResp.url) = 0

\* C7 (as claimed): a 403 to the first request sends one full GET and logs
\* nothing; a 200 to that GET puts the URL into validUrls, not into errors,
\* and makes neededFullRequest 1; a 403 to that GET logs error 403.
C7_ForbiddenFallsBack ==
    /\ Answered("head", 403) =>
           /\ fullReqs[lastResp.url] = 1
           /\ Classifications(lastResp.url) = 0
    /\ (Answered("full", 200) /\ lastResp.head = 403) =>
           /\ TablesWith(lastResp.url) = {"validUrls"}
           /\ cnt.neededFullRequest = 1
    /\ (Answered("full", 403) /\ lastResp.head = 403) =>
           <<lastResp.url, 403>> \in BagToSet(errors)

\* C8: a URL gets at most one first request and at most one full GET, the
\* GET only after the first request; whatever the GET ends with, it decides:
\* no worker is left with a request for that URL.
C8_FallbackAtMostOnce ==
    /\ \A u \in Urls : fullReqs[u] <= headReqs[u] /\ headReqs[u] <= 1
    /\ (lastResp.url # NoItem /\ lastResp.request_type = "full") =>
           /\ lastResp.final
           /\ \A w \in Workers :
                  wurl[w] = lastResp.url => wpc[w] \notin {"head", "full"}

\* C8 witness: the fallback GET of a URL was answered 403 as the first
\* request was, and that was its only GET.
C8_Witness ==
    /\ Answered("full", 403)
    /\ lastResp.head = 403
    /\ fullReqs[lastResp.url] = 1

\* C9 (as claimed): a status code validate_url does not know (500) to the
\* first request sends one full GET and logs nothing; the same code to that
\* GET logs the exception "Other" with the code.
C9_OtherCodeFallsBack ==
    /\ Answered("head", 500) =>
           /\ fullReqs[lastResp.url] = 1
           /\ Classifications(lastResp.url) = 0
    /\ (Answered("full", 500) /\ lastResp.head = 500) =>
           /\ <<lastResp.url, <<"Other", 500>>>> \in BagToSet(exceptions)
           /\ Classifications(lastResp.url) = 1

\* The deciding response had a status code out of codes.
Decided(codes) ==
    /\ lastResp.url # NoItem
    /\ lastResp.outcome.exc = "none"
    /\ lastResp.outcome.status \in codes

\* C10: the status code of the deciding response gives the class.  200, 302,
\* 303, 307: the URL is in validUrls with the epoch seconds of that moment,
\* and counted as fine.  301, 308: a row in permanentRedirects with the code.
\* 404, 410: a row in errors with the code.  429: the exception row
\* "Rate Limit (429)", and no request for the URL is left or sent again.
C10_ClassFollowsStatus ==
    LET u == lastResp.url
        c == lastResp.outcome.status
    IN /\ Decided({200, 302, 303, 307}) =>
              /\ <<u, lastResp.at>> \in BagToSet(validUrls)
              /\ TablesWith(u) = {"validUrls"}
              /\ cnt.fine >= 1
       /\ Decided({301, 308}) =>
              /\ <<u, c>> \in BagToSet(permanentRedirects)
              /\ TablesWith(u) = {"permanentRedirects"}
       /\ Decided({404, 410}) =>
              /\ <<u, c>> \in BagToSet(errors)
              /\ TablesWith(u) = {"errors"}
       /\ Decided({429}) =>
              /\ <<u, <<"Rate Limit (429)", 0>>>> \in BagToSet(exceptions)
              /\ TablesWith(u) = {"exceptions"}
              /\ Holding(u) = 0 /\ OnQueue(u) = 0
              /\ headReqs[u] = 1
              /\ fullReqs[u] = IF lastResp.request_type = "full" THEN 1 ELSE 0

\* C10 witness: a URL answered 302 after the clock had moved on, and is in
\* validUrls with the later time.
C10_Witness ==
    /\ Decided({302})
    /\ lastResp.at > StartTime
    /\ <<lastResp.url, lastResp.at>> \in BagToSet(validUrls)

\* C11 (as claimed): with num_workers 'automatic' and a probe set of n >= 1
\* URLs the recommendation is 4 for n <= 24, 12 for 25 <= n <= 99, 32 for
\* 100 <= n <= 4999 and 64 for n >= 5000.
C11_AutomaticPoolSize ==
    (num_workers = "automatic" /\ num_checks >= 1 /\ recommendation.exc # "unset") =>
        /\ recommendation.exc = "none"
        /\ recommendation.n = IF num_checks <= 24 THEN 4
                              ELSE IF num_checks <= 99 THEN 12
                              ELSE IF num_checks <= 4999 THEN 32
                              ELSE 64

\* The requests of each pool that are sent and not yet answered.
UrlInFlight == {w \in Workers : wpc[w] \in {"head", "full"}}
DoiInFlight == {w \in DoiWorkers : dpc[w] = "request"}
\* The worker tasks the URL pool was started with.
UrlPool == {w \in Workers : wpc[w] # "none"}

\* C12: at every moment of the URL phase at most as many requests are in
\* flight as the pool was given workers, and every URL a request is in
\* flight for is off the queue; at every moment of the DOI phase at most 5
\* requests are in flight.
C12_BoundedConcurrency ==
    /\ Cardinality(UrlInFlight) <= recommendation.n
    /\ \A w \in UrlInFlight : wurl[w] # NoItem /\ OnQueue(wurl[w]) = 0
    /\ Cardinality(DoiInFlight) <= 5
    /\ \A w \in DoiInFlight :
           ddoi[w] # NoItem /\ \A i \in 1 .. Len(dqueue) : dqueue[i] # ddoi[w]

\* C12 witness: the DOI pool has 5 requests in flight while a DOI waits on
\* the queue, after a URL phase in which the one worker had a request in
\* flight while a URL waited on the queue.
C12_Witness ==
    /\ Cardinality(DoiInFlight) = 5
    /\ dqueue # <<>>
    /\ recommendation.n = 1
    /\ headReqs["u1"] = 1 /\ headReqs["u2"] = 1

\* C14 (as claimed): the URL pool is started with as many workers as an
\* explicit num_workers says, and never with fewer than 1.
C14_PoolNeverEmpty ==
    pc = "url_join" =>
        /\ num_workers # "automatic" => Cardinality(UrlPool) = IntOf(num_workers)
        /\ Cardinality(UrlPool) >= 1

\* The URL phase has ended as __distribute_work leaves it: the queue empty,
\* every URL of the probe set acknowledged, every worker task cancelled, the
\* session closed.
UrlPhaseEnded ==
    /\ Has("urls_done")
    /\ queue = <<>> /\ unfinished = 0
    /\ \A u \in ProbeSet : acked[u] = 1
    /\ \A w \in Workers : wpc[w] \in {"none", "cancelled"}
    /\ session = "closed"

\* C13: a URL phase that starts with a non-empty probe set and at least one
\* worker, and whose requests all end with a status or with an exception
\* validate_url names, ends in the end: the queue is empty, every item is
\* acknowledged, the workers are cancelled and the session is closed.
C13_UrlPhaseTerminates ==
    (pc = "url_join" /\ recommendation.n >= 1) ~> UrlPhaseEnded

\* C13 witness: a phase of two URLs and one worker has ended, one URL after
\* the fallback GET.
C13_Witness ==
    /\ UrlPhaseEnded
    /\ num_workers = "1"
    /\ Cardinality(ProbeSet) = 2
    /\ \E u \in ProbeSet : fullReqs[u] = 1

\* The DOIs of the probe set of this run, and those of them a worker has
\* acknowledged: taken off the queue and no longer in a worker's hands.
DoiProbeSet == {queue_doi[i].doi : i \in 1 .. Len(queue_doi)}
DoiAcked ==
    {d \in DoiProbeSet :
        /\ Has("dois")
        /\ \A i \in 1 .. Len(dqueue) : dqueue[i] # d
        /\ \A w \in DoiWorkers : ddoi[w] # d}
\* The DOIs the store holds a classification of.
DoiClassified == Keys(validDois) \cup BagToSet(invalidDois)

\* C15 (as claimed): an item is acknowledged only after its classification
\* is in the store: every acknowledged URL has a row in a result table and
\* every acknowledged DOI whose status classifies it is in the table of
\* valid or of invalid DOIs.
C15_AckAfterWrite ==
    /\ \A u \in Urls : acked[u] >= 1 => Classifications(u) >= 1
    /\ \A d \in DoiAcked : dseen[d] \in {200, 404} => d \in DoiClassified

\* C16 (as claimed): when the session of a pool is closed every worker task
\* of the pool has ended: none is waiting for its cancellation to be
\* delivered, none is at the queue or in a request.
C16_CloseAfterQuiesce ==
    /\ session = "closed" =>
           \A w \in Workers : wpc[w] \in {"none", "cancelled", "raised"}
    /\ dsession = "closed" =>
           \A w \in DoiWorkers : dpc[w] \in {"none", "cancelled", "raised"}

\* C17 (as claimed): the requests the DOI workers send within one interval
\* are at most the advertised maximum; the requests of the first turn of
\* the event loop are sent within one interval.
C17_RateCompliance ==
    advertised > 0 => dfirst <= advertised

\* C18 (as claimed): a response without the rate limit headers does not end
\* the worker: no worker task ends with the KeyError of the missing header.
C18_MissingHeadersDefault ==
    \A w \in DoiWorkers : dexc[w] # "KeyError"

\* C19 (as claimed): a timeout of a DOI request does not end the worker: no
\* worker task ends with TimeoutError, and no item stays unacknowledged in
\* the hands of an ended task.
C19_DoiFailureNotFatal ==
    \A w \in DoiWorkers :
        dexc[w] # "TimeoutError" /\ (dpc[w] = "raised" => ddoi[w] = NoItem)

\* C20: a DOI is in validDois only if its request returned 200 and in the
\* table of invalid DOIs only if it returned 404; when the DOI phase has
\* ended, every DOI that returned 200 is in validDois, every DOI that
\* returned 404 is logged as invalid, and a DOI with another status is in
\* neither.
C20_ValidIff200 ==
    \A d \in Dois :
        /\ d \in Keys(validDois) => dseen[d] = 200
        /\ d \in BagToSet(invalidDois) => dseen[d] = 404
        /\ Has("dois_done") =>
               /\ dseen[d] = 200 => d \in Keys(validDois)
               /\ dseen[d] = 404 => d \in BagToSet(invalidDois)

\* C20 witness: the run is over, the DOI returned 404 and is logged as
\* invalid and not in the cache file.
C20_Witness ==
    /\ pc = "done"
    /\ dseen["d1"] = 404
    /\ "d1" \in BagToSet(invalidDois)
    /\ "d1" \notin Keys(diskDois)

\* The age in seconds up to which a cache entry counts as fresh.
TTL == dont_check_again_within_hours * 3600

\* C21 (as claimed): a URL the call before this one classified as fine is
\* not probed in this call when this call starts within
\* dont_check_again_within_hours of that classification, however the call
\* before ended and whatever path this one is given.
C21_FineNotProbedAgain ==
    (run > 1 /\ pc # "idle") =>
        \A r \in prevFine : now - r[2] <= TTL => headReqs[r[1]] = 0

\* The normalized URLs scan_files found, and the URLs of the cache entries
\* on disk that are at most maxAge seconds old.
ScannedUrls == {linkRecords[i].normalizedUrl : i \in 1 .. Len(linkRecords)}
CachedUpTo(maxAge) == {r[1] : r \in {x \in BagToSet(diskUrls) : now - x[2] <= maxAge}}

\* C22 (as claimed): when the URL phase begins, the probe set is the set of
\* the normalized URLs of the scanned links without those that have a cache
\* entry at most dont_check_again_within_hours old; an entry that is
\* exactly that old still keeps its URL out of the probe set.
C22_ProbeSetUpToTTL ==
    pc = "check_urls" => ProbeSet = ScannedUrls \ CachedUpTo(TTL)

\* The status codes validate_url takes for a working link.
FineCodes == {200, 302, 303, 307}
\* The URLs and DOIs this call of check() has found valid.
FineUrls == {u \in Urls : useen[u] \in FineCodes}
FineDois == {d \in Dois : dseen[d] = 200}
\* Every row of table a is a row of table b, as often.
RowsWithin(a, b) == \A r \in BagToSet(a) : CopiesIn(r, a) <= CopiesIn(r, b)

\* C23: once the cache file is written, its table validUrls holds the rows
\* load_disk_cache read at the start of the call and one row for every URL
\* the call found fine, and nothing else; its table validDois holds the
\* rows read at the start and one row for every DOI the call found valid,
\* and nothing else.
C23_CacheIsLoadedPlusFine ==
    pc \in {"teardown", "done"} =>
        /\ RowsWithin(loadedUrls, diskUrls)
        /\ Keys(diskUrls) = Keys(loadedUrls) \cup FineUrls
        /\ BagCardinality(diskUrls)
               = BagCardinality(loadedUrls) + Cardinality(FineUrls)
        /\ RowsWithin(loadedDois, diskDois)
        /\ Keys(diskDois) = Keys(loadedDois) \cup FineDois
        /\ BagCardinality(diskDois)
               = BagCardinality(loadedDois) + Cardinality(FineDois)

\* C23 witness: the second call of check() has written the cache file; it
\* had loaded u1 and the DOI d1 from the file and found u2 fine.
C23_Witness ==
    /\ pc = "done" /\ run = 2
    /\ Keys(loadedUrls) = {"u1"} /\ Keys(loadedDois) = {"d1"}
    /\ FineUrls = {"u2"}
    /\ Keys(diskUrls) = {"u1", "u2"} /\ Keys(diskDois) = {"d1"}
    /\ prevFine # {}

\* C24 (as claimed): while overwrite_cache_file is at work a file stands at
\* the path of the cache, and it is the old file, with the rows that were
\* loaded from it, or the new one, with the rows of the in-memory tables.
C24_AtomicReplace ==
    pc = "backup" =>
        /\ diskFile # "none"
        /\ \/ RowsWithin(loadedUrls, diskUrls) /\ RowsWithin(loadedDois, diskDois)
           \/ diskUrls = validUrls /\ diskDois = validDois

\* C25 (as claimed): load_disk_cache raises nothing, and when the cache file
\* is missing, cannot be opened or read, or lacks one of the two tables, the
\* call goes on with validUrls and validDois both empty.
C25_UnreadableCacheIsEmpty ==
    /\ pc # "UnboundLocalError"
    /\ (pc \notin {"idle", "backup"} /\ diskFile # "sqlite") =>
           loadedUrls = EmptyBag /\ loadedDois = EmptyBag

\* The DOIs scan_files found.
ScannedDois == {doiRecords[i].doi : i \in 1 .. Len(doiRecords)}

\* C26: the DOI probe set is the set of the scanned DOIs without those in
\* validDois, and validDois is loaded with every row of the cache file,
\* whatever its age.  No request is sent for a DOI that was loaded, and when
\* the DOI phase has ended every other scanned DOI has been answered.
C26_DoiProbeSet ==
    /\ pc = "check_urls" =>
           /\ DoiProbeSet = ScannedDois \ Keys(loadedDois)
           /\ diskFile = "sqlite" => loadedDois = diskDois
    /\ \A w \in DoiWorkers : ddoi[w] # NoItem => ddoi[w] \notin Keys(loadedDois)
    /\ \A d \in Dois : dseen[d] # 0 => d \notin Keys(loadedDois)
    /\ Has("dois_done") =>
           \A d \in ScannedDois \ Keys(loadedDois) : dseen[d] # 0

\* C26 witness: the DOI phase has ended; d1 was in the cache file with a row
\* older than dont_check_again_within_hours and got no request, d2 got one.
C26_Witness ==
    /\ Has("dois_done")
    /\ ScannedDois = {"d1", "d2"}
    /\ \E r \in BagToSet(loadedDois) : r[1] = "d1" /\ now - r[2] > TTL
    /\ dseen["d1"] = 0 /\ dseen["d2"] # 0

\* Where check() stands right after the part that CheckBegin models.
AfterBegin == {"check_urls", "returned", "FileNotFoundError", "ValueError",
               "UnboundLocalError", "OSError"}

\* C27: a call of check() that follows another one on the same object
\* starts with nothing of the earlier call: the result tables are empty, the
\* tables of links and DOIs hold rows of this scan only, fileAccessErrors
\* holds this scan's rows only, the counters are zero, no request of the
\* earlier call is counted, and validUrls and validDois hold what was
\* loaded from the cache file and nothing else.
C27_RunsStartFresh ==
    (run > 1 /\ pc \in AfterBegin) =>
        /\ errors = EmptyBag /\ permanentRedirects = EmptyBag
        /\ exceptions = EmptyBag /\ invalidDois = EmptyBag
        /\ ProbeSet \subseteq ScannedUrls /\ Len(links) <= Len(linkRecords)
        /\ DoiProbeSet \subseteq ScannedDois /\ Len(queue_doi) <= Len(doiRecords)
        /\ BagCardinality(fileAccessErrors) <= Len(FilesFound)
        /\ cnt = NewCounter
        /\ valid_doi_list = <<>> /\ invalid_doi_list = <<>>
        /\ validUrls = loadedUrls /\ validDois = loadedDois
        /\ RowsWithin(loadedUrls, diskUrls) /\ RowsWithin(loadedDois, diskDois)

\* C27 witness: the second call starts its URL phase on the folder; the
\* first call had found a URL fine, and that row was loaded from the file.
C27_Witness ==
    /\ run = 2 /\ pc = "check_urls"
    /\ prevFine # {}
    /\ prevFine \subseteq BagToSet(validUrls)
    /\ links # <<>>

\* No request of this call has been sent, and the cache file has not been
\* touched by overwrite_cache_file.
NothingProbed ==
    /\ \A u \in Urls : headReqs[u] = 0 /\ fullReqs[u] = 0
    /\ \A d \in Dois : dseen[d] = 0
    /\ session = "none" /\ dsession = "none"
CacheNotRewritten == ~Has("cache") /\ diskFile # "none"

\* C28 (as claimed): check() on a path that does not exist ends with
\* FileNotFoundError, check() on a single file with a suffix that is not
\* supported ends with ValueError, and in both cases no request has been
\* sent and the cache file has not been rewritten.
C28_BadPathRaises ==
    /\ (path = "missing" /\ pc # "idle") => pc = "FileNotFoundError"
    /\ (path = "unsupported" /\ pc # "idle") => pc = "ValueError"
    /\ (path \in {"missing", "unsupported"} /\ pc # "idle") =>
           NothingProbed /\ CacheNotRewritten

\* The normalized URLs of the links the files at the searchpath hold.
ContentUrls == {content[i].normalizedUrl : i \in 1 .. Len(content)}

\* C29 (as claimed): check() on a single supported file takes in that file
\* as a scan of a folder would: every link of it is a row of table links,
\* the probe set is the set of its normalized URLs without those loaded
\* from the cache, every URL of the probe set gets one request, and a URL
\* that answered 200 is in validUrls.
C29_SingleFileIngested ==
    /\ (path = "file" /\ pc = "check_urls") =>
           /\ linkRecords = content
           /\ ProbeSet = ContentUrls \ Keys(loadedUrls)
    /\ (path = "file" /\ Has("urls_done")) =>
           \A u \in ContentUrls \ Keys(loadedUrls) :
               /\ headReqs[u] = 1
               /\ useen[u] = 200 => u \in Keys(validUrls)

\* The files of the folder that could not be read in this call.
Unreadable == {f \in Files : reads[f] # "content"}

\* C30: scan_files never raises; a file that cannot be read leaves one row
\* in fileAccessErrors, with the problem that belongs to its exception, and
\* no row in the table of links; the links of every file that can be read
\* are in the table of links; and a call that has recorded such a file
\* goes on to the URL phase.
C30_UnreadableFileSkipped ==
    /\ pc # "OSError"
    /\ (path = "dir" /\ pc \notin {"idle", "UnboundLocalError"}) =>
           /\ \A f \in Unreadable :
                  /\ CopiesIn(<<f, AccessProblem(reads[f])>>, fileAccessErrors) = 1
                  /\ LinksIn(linkRecords, f) = <<>>
           /\ \A f \in Files \ Unreadable :
                  /\ LinksIn(linkRecords, f) = LinksIn(content, f)
                  /\ RowsOf(fileAccessErrors, f) = 0
           /\ BagCardinality(fileAccessErrors) = Cardinality(Unreadable)
    /\ (fileAccessErrors # EmptyBag /\ pc \in AfterBegin) => pc = "check_urls"

\* C30 witness: the first file could not be opened for lack of permission,
\* its link is not in the table, and the link of the second file has got
\* its request.
C30_Witness ==
    /\ pc = "url_join"
    /\ reads["f1"] = "PermissionError"
    /\ fileAccessErrors = SetToBag({<<"f1", "permission error">>})
    /\ "u1" \in ContentUrls \ ScannedUrls
    /\ headReqs["u2"] = 1

\* The sum of f over the set S.
RECURSIVE SumOver(_, _)
SumOver(f, S) ==
    IF S = {} THEN 0
    ELSE LET x == CHOOSE y \in S : TRUE IN f[x] + SumOver(f, S \ {x})
\* The first requests this call has sent: one for each URL it probes.
UrlProbes == SumOver(headReqs, Urls)
\* The scanned URLs that load_disk_cache found a fresh cache entry for.
FreshHits == ScannedUrls \cap Keys(loadedUrls)

\* C31: a request is sent only for a scanned URL without a fresh cache
\* entry, and when the URL phase has ended the number of URLs that got a
\* request is the number of distinct normalized URLs of the scanned links
\* minus the number of those with a fresh cache entry, however many link
\* rows share a URL.
C31_Dedup ==
    /\ \A u \in Urls : headReqs[u] > 0 => u \in ScannedUrls \ FreshHits
    /\ Has("urls_done") =>
           UrlProbes = Cardinality(ScannedUrls) - Cardinality(FreshHits)

\* C31 witness: two files link to u2, the cache file holds a fresh entry
\* for another URL, and the URL phase has ended after one request.
C31_Witness ==
    /\ Has("urls_done")
    /\ Len(linkRecords) = 2
    /\ linkRecords[1].filePath # linkRecords[2].filePath
    /\ ScannedUrls = {"u2"}
    /\ loadedUrls # EmptyBag
    /\ UrlProbes = 1

\* C32: check() ends with DeadLinksException exactly when
\* raise_for_dead_links is set and table errors holds a row at the end of
\* the run; a run past the gate has it unset or no such row; and a run that
\* ends with rows in permanentRedirects, exceptions or fileAccessErrors and
\* none in errors ends by returning, whatever raise_for_dead_links is.
C32_DeadLinksIff ==
    /\ pc \in Ended =>
           (pc = "DeadLinksException"
               <=> raise_for_dead_links /\ count_errors(errors) > 0)
    /\ pc \in {"overwrite", "backup", "teardown", "done"} =>
           ~(raise_for_dead_links /\ count_errors(errors) > 0)
    /\ (/\ pc \in Ended
        /\ errors = EmptyBag
        /\ \/ permanentRedirects # EmptyBag
           \/ exceptions # EmptyBag
           \/ fileAccessErrors # EmptyBag) => pc = "done"

\* C32 witness: with raise_for_dead_links set, a run in which one file
\* could not be read, one link was moved for good and the request of the
\* other timed out has returned.
C32_Witness ==
    /\ pc = "done"
    /\ raise_for_dead_links
    /\ errors = EmptyBag
    /\ permanentRedirects # EmptyBag
    /\ exceptions # EmptyBag
    /\ fileAccessErrors # EmptyBag

\* The rows of the scan whose normalized URL was not loaded from the cache.
RowsToProbe ==
    SelectSeq(linkRecords, LAMBDA r : r.normalizedUrl \notin Keys(loadedUrls))
\* The prune step has left every table but links as it was.
PruneFrame ==
    /\ validUrls = loadedUrls /\ validDois = loadedDois
    /\ errors = EmptyBag /\ permanentRedirects = EmptyBag
    /\ exceptions = EmptyBag /\ invalidDois = EmptyBag

\* C33 (as claimed): after the prune step of a call on a folder, table
\* links holds the scanned rows whose normalized URL is not in validUrls,
\* in their order, and no other; the other tables are as they were; and the
\* number the step returns is the number of distinct normalized URLs that
\* are left to probe.
C33_PruneReturnsDistinct ==
    (path = "dir" /\ pc = "check_urls") =>
        /\ links = RowsToProbe
        /\ PruneFrame
        /\ num_links_after(links) = Cardinality(ProbeSet)

\* C34 (as claimed): handle_found_dois hands every entry of its list to the
\* store once and in the order of the list, whatever the length of the
\* list: after the scan the table of DOIs holds as many rows as the list
\* has entries.
C34_EveryDoiStored ==
    (path = "dir" /\ pc = "check_urls") =>
        /\ Len(doiRecords) = Len(doi_list)
        /\ doiRecords = doi_list

\* C35 (as claimed): for headers with max_queries >= 1 and seconds >= 1 the
\* worker sleeps (seconds / (0.9 * max_queries)) * 5, and with that sleep
\* the 5 workers together send at most 0.9 * max_queries requests per
\* `seconds`: 5 requests per time_to_sleep is no more than that.
C35_SleepKeepsNinetyPercent ==
    (time_to_sleep # NotCalled /\ max_queries >= 1 /\ seconds >= 1) =>
        /\ time_to_sleep.slept
        /\ time_to_sleep.num * 9 * max_queries
               = 10 * seconds * NUM_API_WORKERS * time_to_sleep.den
        /\ NUM_API_WORKERS * time_to_sleep.den * 10 * seconds
               <= 9 * max_queries * time_to_sleep.num

\* C40 (as claimed): __rate_limit_wait raises ValueError and does not sleep
\* when max_queries < 1, and also when seconds < 1; for every other pair
\* it raises nothing and sleeps a time greater than zero.
C40_BadHeadersRaise ==
    time_to_sleep # NotCalled =>
        /\ max_queries < 1 =>
               time_to_sleep.exc = "ValueError" /\ ~time_to_sleep.slept
        /\ seconds < 1 =>
               time_to_sleep.exc = "ValueError" /\ ~time_to_sleep.slept
        /\ (max_queries >= 1 /\ seconds >= 1) =>
               /\ time_to_sleep.exc = "none" /\ time_to_sleep.slept
               /\ time_to_sleep.num > 0 /\ time_to_sleep.den > 0

\* C36 (as claimed): a call of check() on a folder without any supported
\* file returns; it has sent no request and rendered no report, and what
\* stands at the path of the cache file is what stood there before the
\* call.
C36_EmptyFolderReturns ==
    [][(pc = "idle" /\ path' = "emptydir") =>
           /\ pc' = "returned"
           /\ NothingProbed' /\ ~Has("report")'
           /\ diskFile' = diskFile
           /\ diskUrls' = diskUrls /\ diskDois' = diskDois]_vars

\* C37: when the tasks of a pool are cancelled the queue is empty and every
\* item is acknowledged, and every worker of the pool waits in queue.get():
\* none holds an item it has not acknowledged, none has a request in
\* flight, none sleeps for the rate limit, none has ended before.
C37_CancelledWhileWaiting ==
    /\ pc = "url_gather" =>
           /\ queue = <<>> /\ unfinished = 0
           /\ UrlInFlight = {}
           /\ \A w \in UrlPool : wpc[w] = "cancelling" /\ wurl[w] = NoItem
    /\ pc = "doi_gather" =>
           /\ dqueue = <<>> /\ dunfinished = 0
           /\ DoiInFlight = {}
           /\ \A w \in DoiWorkers : dpc[w] = "cancelling" /\ ddoi[w] = NoItem

\* C37 witness: the DOI workers are cancelled after the one DOI was
\* answered, in a run whose two URL workers had probed two URLs and were
\* cancelled as well.
C37_Witness ==
    /\ pc = "doi_gather"
    /\ dseen["d1"] # 0
    /\ \A w \in DoiWorkers : dpc[w] = "cancelling"
    /\ num_workers = "2"
    /\ acked["u1"] = 1 /\ acked["u2"] = 1
    /\ \A w \in UrlPool : wpc[w] = "cancelled"

\* The count view and the list view over one result table agree: for every
\* file the count is the number of rows the list has for it, and every link
\* row whose URL has a row in the table stands in the list once, with the
\* code or reason of that row.
ViewsAgree(table) ==
    /\ \A f \in Files :
           CountByFile(links, table, f) = defects(ListByFile(links, table), f)
    /\ \A i \in 1 .. Len(links) :
           links[i].normalizedUrl \in Keys(table) =>
               \E r \in BagToSet(table) :
                   /\ r[1] = links[i].normalizedUrl
                   /\ CopiesIn(<<links[i].filePath, i, r[2]>>,
                               ListByFile(links, table)) = 1

\* C38: once the views are built, the per-file count of errors is the
\* number of rows of the per-file list of errors for every file, and every
\* link row whose normalized URL has a row in errors stands in that list
\* with its own url and linktext, also when several link rows of one or
\* of two files share a normalized URL; the same for permanentRedirects
\* and for exceptions.
C38_ViewsAgree ==
    Has("views") =>
        /\ ViewsAgree(errors)
        /\ ViewsAgree(permanentRedirects)
        /\ ViewsAgree(exceptions)
        /\ \A f \in Files :
               /\ v_errorCountByFile(f) = defects(v_errorsByFile, f)
               /\ v_redirectCountByFile(f) = defects(v_redirectsByFile, f)
               /\ v_exceptionCountByFile(f) = defects(v_exceptionsByFile, f)

\* C38 witness: two files link to the same URL, it was probed once and
\* found dead, and each file has one row in the list of errors.
C38_Witness ==
    /\ Has("views")
    /\ Len(links) = 2
    /\ links[1].filePath = "f1" /\ links[2].filePath = "f2"
    /\ links[1].normalizedUrl = links[2].normalizedUrl
    /\ BagCardinality(errors) = 1
    /\ headReqs[links[1].normalizedUrl] = 1
    /\ v_errorCountByFile("f1") = 1 /\ v_errorCountByFile("f2") = 1
    /\ BagCardinality(v_errorsByFile) = 2

\* No key stands twice in the table.
OneRowPerKey(table) == \A k \in Keys(table) : RowsOf(table, k) = 1

\* C39: through every sequence of calls of check(), on whatever paths and
\* however far apart, the cache file holds at most one validUrls row for a
\* normalized URL and at most one validDois row for a DOI, and so do the
\* in-memory tables it is written from.  The cache the first call finds
\* is empty or holds no key twice.
C39_OneCacheRowPerKey ==
    /\ OneRowPerKey(diskUrls) /\ OneRowPerKey(diskDois)
    /\ OneRowPerKey(validUrls) /\ OneRowPerKey(validDois)

\* C39 witness: the second call has written the cache file; u1 was found
\* fine by both calls and d1 was found valid by the first and loaded by the
\* second, and the file holds one row for each.
C39_Witness ==
    /\ run = 2 /\ pc = "done"
    /\ \E r \in prevFine : r[1] = "u1"
    /\ headReqs["u1"] = 1 /\ useen["u1"] = 200
    /\ <<"d1", StartTime>> \in BagToSet(loadedDois)
    /\ RowsOf(diskUrls, "u1") = 1 /\ RowsOf(diskDois, "d1") = 1

====
